---- MODULE Spec2Model ----
(***************************************************************************)
(* Ranking engine of the gaming leaderboard: LeaderboardService            *)
(* (backend/app/services/leaderboard.py) over the three tables of          *)
(* backend/app/models/base.py and the Redis cache of                       *)
(* backend/app/core/cache.py.                                              *)
(*                                                                         *)
(* A storage session is a worker.  submit_score is modelled statement      *)
(* group by statement group (one action per flush), so that a storage      *)
(* failure can strike at every step and so that two sessions can           *)
(* interleave.  A session reads the committed tables overlaid with its     *)
(* own flushed, uncommitted rows (READ COMMITTED, the default of the       *)
(* postgresql:// DATABASE_URL); a flushed row is locked until commit or    *)
(* rollback.                                                               *)
(*                                                                         *)
(* Left out of the rows: username/email (a function of the id), win_rate   *)
(* (always 0.0), the timestamps, game_mode, duration_ms, metadata.         *)
(* Scores are integers; an optional value is a sequence of length <= 1.    *)
(***************************************************************************)
EXTENDS Integers, Sequences, FiniteSets, TLC

\* ---------------------------------------------------------------- bounds
NumPlayers == 3
MaxSessions == 3
MaxReads == 2
PageLimit == 2
MaxOffset == 1
MaxBroadcasts == 2
MaxBatchSize == 3
MaxCounter == 2

\* ------------------------------------------------------- program constants
LEADERBOARD_TOP_N == 100

Players == 1..NumPlayers
Scores == {200, 300, 500}
Workers == {"w1", "w2"}
Conns == {"c1", "c2"}
ViewerIds == {1, 2}
Submitters == {1}
TaskIds == 1..MaxSessions
BatchSizes == 1..MaxBatchSize
Limits == {PageLimit, LEADERBOARD_TOP_N}
Offsets == 0..MaxOffset

VARIABLES
    users,          \* table users: the ids that have a User row
    game_sessions,  \* table game_sessions: sequence of rows, id = index
    leaderboard,    \* table leaderboard: set of rows
    redis_client,   \* CacheManager.redis_client is set (connect succeeded)
    redis_ok,       \* calls on the client succeed (FALSE: every call raises)
    cache,          \* Redis contents: key -> <<>> (absent) or <<value>>
    tx,             \* per storage session: position in submit_score and pending writes
    ret,            \* what the last completed call returned
    nreads,         \* number of read calls made so far (bounded)
    loop_running,   \* asyncio.get_running_loop() succeeds in submit_score
    active_connections, \* ConnectionManager.active_connections, in insertion order
    tasks,          \* broadcast_update coroutines scheduled or suspended on the event loop
    ws,             \* per WebSocket: position of its endpoint handler, messages received
    job             \* batch_recalculate_rankings: its position, arguments and locals

vars == <<users, game_sessions, leaderboard, redis_client, redis_ok, cache, tx, ret, nreads,
          loop_running, active_connections, tasks, ws, job>>
wsvars == <<loop_running, active_connections, tasks, ws>>
tables == <<users, game_sessions, leaderboard>>

\* ------------------------------------------------------------------ rows
Some(v) == <<v>>
None == <<>>

\* Leaderboard(user_id, total_score, games_played, rank, is_active=1)
LeaderboardRow(p, total, games, rank, active) ==
    [user_id |-> p, total_score |-> total, games_played |-> games,
     rank |-> rank, is_active |-> active]

\* GameSession(user_id, score)
GameSessionRow(p, sc) == [user_id |-> p, score |-> sc]

TopKeys == {<<"top_leaderboard", l, o>> : l \in Limits, o \in Offsets}
UserKeys == {<<"user_rank", p, 0>> : p \in Players}
CounterKeys == {<<"counter", 0, 0>>}
Keys == TopKeys \cup UserKeys \cup CounterKeys

IdleTx ==
    [pc |-> "idle", user_id |-> 0, score |-> 0, newUser |-> FALSE,
     newSession |-> FALSE, entry |-> None, isNew |-> FALSE, flushed |-> FALSE,
     old_rank |-> None, new_rank |-> 0, rank_change |-> 0,
     pre |-> <<>>]

\* A WebSocket before its endpoint handler has started.
NewWs == [pc |-> "new", user_id |-> 0, received |-> <<>>, send_failed |-> FALSE]

\* A WebSocket whose endpoint handler has ended; what it received is no
\* longer recorded.
ClosedWs == [NewWs EXCEPT !.pc = "closed"]

\* batch_recalculate_rankings not called.  recalculated is the set of the
\* player ids whose rank a run has recomputed.
\* page holds the player ids of the current batch still to update, pending
\* the rows the job's session has updated and not committed; start is the
\* table when the job was called and lost the updates a crash discarded;
\* queries counts the page queries the run has issued.
IdleJob ==
    [pc |-> "idle", batch_size |-> 0, offset |-> 0, total_recalculated |-> 0,
     recalculated |-> {}, page |-> <<>>, pending |-> {}, start |-> {}, lost |-> {},
     queries |-> 0]

NoRet == [op |-> "none", args |-> <<>>, ok |-> TRUE, src |-> "", val |-> <<>>]

\* ------------------------------------------------------------ pure parts
RECURSIVE SumScores(_, _)
SumScores(rows, p) ==
    IF rows = <<>> THEN 0
    ELSE (IF Head(rows).user_id = p THEN Head(rows).score ELSE 0)
         + SumScores(Tail(rows), p)

CountSessions(rows, p) ==
    Cardinality({i \in 1..Len(rows) : rows[i].user_id = p})

ActiveRows(tbl) == {e \in tbl : e.is_active = 1}

\* db.query(Leaderboard).filter(Leaderboard.user_id == p).first()
EntryOf(tbl, p) == {e \in tbl : e.user_id = p}

\* Variant: the session does not see its own flushed row.
ViewOf_CommittedOnly(w) == leaderboard

\* What session w reads: the committed table overlaid with its own flushed row.
ViewOf(w) ==
    IF tx[w].flushed
    THEN {e \in leaderboard : e.user_id # tx[w].user_id} \cup {tx[w].entry[1]}
    ELSE leaderboard

\* Variant: entries with an equal total count as ahead.
calculate_rank_GreaterEq(tbl, p) ==
    LET mine == {e \in tbl : e.user_id = p /\ e.is_active = 1}
    IN  IF mine = {} THEN 1
        ELSE LET user_score == (CHOOSE e \in mine : TRUE).total_score
             IN  Cardinality({e \in tbl : e.total_score >= user_score
                                          /\ e.user_id # p
                                          /\ e.is_active = 1}) + 1

\* Variant: deactivated entries with a greater total count as ahead.
calculate_rank_CountsInactive(tbl, p) ==
    LET mine == {e \in tbl : e.user_id = p /\ e.is_active = 1}
    IN  IF mine = {} THEN 1
        ELSE LET user_score == (CHOOSE e \in mine : TRUE).total_score
             IN  Cardinality({e \in tbl : e.total_score > user_score}) + 1

\* _calculate_rank(user_id) over the rows tbl the session reads.
calculate_rank(tbl, p) ==
    LET mine == {e \in tbl : e.user_id = p /\ e.is_active = 1}
    IN  IF mine = {} THEN 1
        ELSE LET user_score == (CHOOSE e \in mine : TRUE).total_score
             IN  Cardinality({e \in tbl : e.total_score > user_score
                                          /\ e.is_active = 1}) + 1

\* Variant: the difference is taken the other way round.
RankChange_Reversed(old_rank, new_rank) ==
    IF old_rank # None /\ old_rank[1] # 0 THEN new_rank - old_rank[1] ELSE 0

\* rank_change = (old_rank - new_rank) if old_rank else 0
RankChange(old_rank, new_rank) ==
    IF old_rank # None /\ old_rank[1] # 0 THEN old_rank[1] - new_rank ELSE 0

AllIdle == \A w \in Workers : tx[w].pc = "idle"
InFlight == Cardinality({w \in Workers : tx[w].pc # "idle"})

\* -------------------------------------------------------------- Init
\* The tables hold no score yet, or the one entry of a player who was
\* deactivated (is_active = 0) after a single game; the User rows of the other
\* players exist already or are created by their first submission.
Init ==
    /\ \E D \in {{}, {NumPlayers}} :
           /\ users \in {D, Players}
           /\ game_sessions = IF D = {} THEN <<>> ELSE <<GameSessionRow(NumPlayers, 300)>>
           /\ leaderboard = {LeaderboardRow(p, 300, 1, 1, 0) : p \in D}
    /\ redis_client \in BOOLEAN
    /\ redis_ok \in {b \in BOOLEAN : b => redis_client}
    /\ cache = [k \in Keys |-> None]
    /\ tx = [w \in Workers |-> IdleTx]
    /\ ret = NoRet
    /\ nreads = 0
    /\ loop_running = FALSE
    /\ active_connections = <<>>
    /\ tasks = <<>>
    /\ ws = [c \in Conns |-> NewWs]
    /\ job = IdleJob

\* ------------------------------------------------------- submit_score
\* Entry of submit_score: the request has passed ScoreSubmitRequest
\* (user_id > 0, score > 0).  The number of Game Session rows is bounded.
SubmitBegin(w, p, sc) ==
    /\ tx[w].pc = "idle"
    /\ Len(game_sessions) + InFlight < MaxSessions
    /\ tx' = [tx EXCEPT ![w] = [IdleTx EXCEPT !.pc = "user", !.user_id = p,
                                              !.score = sc, !.pre = tables]]
    /\ ret' = NoRet
    /\ UNCHANGED <<users, game_sessions, leaderboard, redis_client, redis_ok, cache, nreads,
                 wsvars, job>>

\* Get or create user.  An insert of an id another session has inserted and
\* not yet committed waits on the primary key.
QueryUser(w) ==
    /\ tx[w].pc = "user"
    /\ IF tx[w].user_id \in users
       THEN tx' = [tx EXCEPT ![w].pc = "session"]
       ELSE /\ \A v \in Workers \ {w} :
                    ~(tx[v].newUser /\ tx[v].user_id = tx[w].user_id)
            /\ tx' = [tx EXCEPT ![w].pc = "session", ![w].newUser = TRUE]
    /\ UNCHANGED <<users, game_sessions, leaderboard, redis_client, redis_ok, cache, ret, nreads,
                 wsvars, job>>

\* Create game session record, flush.
AddSession(w) ==
    /\ tx[w].pc = "session"
    /\ tx' = [tx EXCEPT ![w].pc = "entry", ![w].newSession = TRUE]
    /\ UNCHANGED <<users, game_sessions, leaderboard, redis_client, redis_ok, cache, ret, nreads,
                 wsvars, job>>

\* Variant: the total is overwritten by the submitted score.
UpdatedEntry_NoAccumulate(e, sc) ==
    [e EXCEPT !.total_score = sc, !.games_played = e.games_played + 1]

\* Variant: the games counter is not incremented.
UpdatedEntry_NoCount(e, sc) ==
    [e EXCEPT !.total_score = e.total_score + sc]

\* leaderboard_entry.total_score += request.score
UpdatedEntry(e, sc) ==
    [e EXCEPT !.total_score = e.total_score + sc,
              !.games_played = e.games_played + 1]

\* Update or create leaderboard entry: the query and the in-memory mutation.
QueryEntry(w) ==
    /\ tx[w].pc = "entry"
    /\ LET found == EntryOf(ViewOf(w), tx[w].user_id)
       IN  IF found # {}
           THEN LET e == CHOOSE x \in found : TRUE
                IN  tx' = [tx EXCEPT ![w].pc = "flush",
                                     ![w].old_rank = Some(e.rank),
                                     ![w].entry = Some(UpdatedEntry(e, tx[w].score)),
                                     ![w].isNew = FALSE]
           ELSE tx' = [tx EXCEPT ![w].pc = "flush",
                                 ![w].old_rank = None,
                                 ![w].entry = Some(LeaderboardRow(tx[w].user_id,
                                                       tx[w].score, 1, 1, 1)),
                                 ![w].isNew = TRUE]
    /\ UNCHANGED <<users, game_sessions, leaderboard, redis_client, redis_ok, cache, ret, nreads,
                 wsvars, job>>

\* Variant: no unique index on leaderboard.user_id and no row lock.
FlushEntry_NoUnique(w) ==
    /\ tx[w].pc = "flush"
    /\ tx' = [tx EXCEPT ![w].pc = "rank", ![w].flushed = TRUE]
    /\ UNCHANGED <<users, game_sessions, leaderboard, redis_client, redis_ok, cache, ret, nreads,
                 wsvars, job>>

\* self.db.flush(): the UPDATE or INSERT of the entry.  It waits for the row
\* lock (or the unique index on user_id) held by another session's flushed
\* entry; an INSERT of a user_id that is committed meanwhile cannot succeed.
FlushEntry(w) ==
    /\ tx[w].pc = "flush"
    /\ \A v \in Workers \ {w} : ~(tx[v].flushed /\ tx[v].user_id = tx[w].user_id)
    /\ ~(tx[w].isNew /\ EntryOf(leaderboard, tx[w].user_id) # {})
    /\ tx' = [tx EXCEPT ![w].pc = "rank", ![w].flushed = TRUE]
    /\ UNCHANGED <<users, game_sessions, leaderboard, redis_client, redis_ok, cache, ret, nreads,
                 wsvars, job>>

\* Recalculate rank for this user, persist it, compute the rank change.
RecalcRank(w) ==
    /\ tx[w].pc = "rank"
    /\ LET new_rank == calculate_rank(ViewOf(w), tx[w].user_id)
       IN  tx' = [tx EXCEPT ![w].pc = "invalidate",
                            ![w].new_rank = new_rank,
                            ![w].entry = Some([tx[w].entry[1] EXCEPT !.rank = new_rank]),
                            ![w].rank_change = RankChange(tx[w].old_rank, new_rank)]
    /\ UNCHANGED <<users, game_sessions, leaderboard, redis_client, redis_ok, cache, ret, nreads,
                 wsvars, job>>

\* CacheManager.delete_pattern: 0 without a client or when the call raises.
DeletePattern(c, keys) ==
    IF redis_client /\ redis_ok THEN [k \in Keys |-> IF k \in keys THEN None ELSE c[k]]
    ELSE c

\* Variant: an unavailable cache fails the submission.
InvalidateCache_Surfaces(w) ==
    /\ tx[w].pc = "invalidate"
    /\ IF redis_client /\ redis_ok
       THEN /\ cache' = DeletePattern(DeletePattern(cache, TopKeys), UserKeys)
            /\ tx' = [tx EXCEPT ![w].pc = "commit"]
            /\ ret' = ret
       ELSE /\ cache' = cache
            /\ tx' = [tx EXCEPT ![w] = IdleTx]
            /\ ret' = [op |-> "submit", args |-> <<>>, ok |-> FALSE,
                       src |-> "invalidate", val |-> <<>>]
    /\ UNCHANGED <<users, game_sessions, leaderboard, redis_client, redis_ok, nreads,
                 wsvars, job>>

\* _invalidate_leaderboard_cache(), called before the commit.
InvalidateCache(w) ==
    /\ tx[w].pc = "invalidate"
    /\ cache' = DeletePattern(DeletePattern(cache, TopKeys), UserKeys)
    /\ tx' = [tx EXCEPT ![w].pc = "commit"]
    /\ UNCHANGED <<users, game_sessions, leaderboard, redis_client, redis_ok, ret, nreads,
                 wsvars, job>>

\* Variant: the commit also rewrites the rank of every other active entry.
CommittedLeaderboard_RerankOthers(tbl, t) ==
    LET rows == {e \in tbl : e.user_id # t.user_id} \cup {t.entry[1]}
    IN  {IF e.user_id # t.user_id /\ e.is_active = 1
         THEN [e EXCEPT !.rank = calculate_rank(rows, e.user_id)]
         ELSE e : e \in rows}

\* The rows of the leaderboard table after the session's entry is committed.
CommittedLeaderboard(tbl, t) ==
    IF t.isNew THEN tbl \cup {t.entry[1]}
    ELSE {e \in tbl : e.user_id # t.user_id} \cup {t.entry[1]}

\* LeaderboardUpdateEvent(user_id, new_rank, old_rank=old_rank or new_rank,
\* total_score, rank_change) of the session's submission.  The field
\* old_rank is Optional[int]: None or Some(rank).
UpdateEvent(t) ==
    [event_type |-> "leaderboard_update", user_id |-> t.user_id,
     new_rank |-> t.new_rank,
     old_rank |-> IF t.old_rank # None /\ t.old_rank[1] # 0
                  THEN Some(t.old_rank[1]) ELSE Some(t.new_rank),
     total_score |-> t.entry[1].total_score,
     rank_change |-> t.rank_change]

\* Variant: the coroutine is awaited, it has run before submit_score returns.
ScheduledTask_Awaited(ev) ==
    [event |-> ev, state |-> "running", items |-> <<>>, inner |-> {},
     cur_user |-> 0, at |-> None, at_start |-> {}]

\* asyncio.ensure_future(manager.broadcast_update(update_event)): the
\* coroutine has not started yet.  Once it runs: items is what is left of
\* list(self.active_connections.items()), inner what is left of
\* list(websockets) of the key cur_user, at the websocket whose send_text it
\* awaits, at_start the websockets that were registered when it started.
ScheduledTask(ev) ==
    [event |-> ev, state |-> "scheduled", items |-> <<>>, inner |-> {},
     cur_user |-> 0, at |-> None, at_start |-> {}]

\* What submit_score returns.
SubmitResult(w) ==
    [op |-> "submit", args |-> <<tx[w].user_id, tx[w].score>>, ok |-> TRUE,
     src |-> "db",
     val |-> <<[session_id |-> Len(game_sessions) + 1,
                total_score |-> tx[w].entry[1].total_score,
                rank |-> tx[w].new_rank,
                rank_change |-> tx[w].rank_change]>>]

\* Variant: an error while the event is built or scheduled is raised to the
\* caller of submit_score.
Commit_BroadcastRaises(w) ==
    /\ tx[w].pc = "commit"
    /\ users' = users \cup (IF tx[w].newUser THEN {tx[w].user_id} ELSE {})
    /\ game_sessions' = Append(game_sessions, GameSessionRow(tx[w].user_id, tx[w].score))
    /\ leaderboard' = CommittedLeaderboard(leaderboard, tx[w])
    /\ \E built \in {b \in BOOLEAN : b => loop_running} :
           /\ tasks' = IF built THEN Append(tasks, ScheduledTask(UpdateEvent(tx[w])))
                       ELSE tasks
           /\ ret' = IF built THEN SubmitResult(w)
                     ELSE [op |-> "submit", args |-> <<>>, ok |-> FALSE,
                           src |-> "broadcast", val |-> <<>>]
    /\ tx' = [tx EXCEPT ![w] = IdleTx]
    /\ UNCHANGED <<redis_client, redis_ok, cache, nreads, loop_running,
                   active_connections, ws, job>>

\* self.db.commit(), the scheduling of the broadcast and the return of
\* (session.id, total_score, new_rank, rank_change).  Nothing is scheduled
\* when building the event raises or no event loop is running: the error is
\* logged.  The commit has expired session, user and leaderboard_entry, so
\* reading session.id for the return queries the storage again, which can
\* fail: the except branch then raises, after the commit.
Commit(w) ==
    /\ tx[w].pc = "commit"
    /\ users' = users \cup (IF tx[w].newUser THEN {tx[w].user_id} ELSE {})
    /\ game_sessions' = Append(game_sessions, GameSessionRow(tx[w].user_id, tx[w].score))
    /\ leaderboard' = CommittedLeaderboard(leaderboard, tx[w])
    /\ \E built \in {b \in BOOLEAN : b => loop_running}, returned \in BOOLEAN :
           /\ tasks' = IF built THEN Append(tasks, ScheduledTask(UpdateEvent(tx[w])))
                       ELSE tasks
           /\ ret' = IF returned THEN SubmitResult(w)
                     ELSE [op |-> "submit", args |-> <<>>, ok |-> FALSE,
                           src |-> "return", val |-> <<>>]
    /\ tx' = [tx EXCEPT ![w] = IdleTx]
    /\ UNCHANGED <<redis_client, redis_ok, cache, nreads, loop_running,
                   active_connections, ws, job>>

StorageSteps == {"user", "session", "entry", "flush", "rank", "commit"}

\* Variant: no rollback, the flushed Game Session row stays.
Fail_NoRollback(w) ==
    /\ tx[w].pc \in {"user", "session", "entry", "flush", "rank", "commit"}
    /\ ret' = [op |-> "submit", args |-> <<>>, ok |-> FALSE,
               src |-> tx[w].pc, val |-> <<>>]
    /\ tx' = [tx EXCEPT ![w] = IdleTx]
    /\ game_sessions' = IF tx[w].newSession
                        THEN Append(game_sessions, GameSessionRow(tx[w].user_id, tx[w].score))
                        ELSE game_sessions
    /\ UNCHANGED <<users, leaderboard, redis_client, redis_ok, cache, nreads,
                 wsvars, job>>

\* except SQLAlchemyError / Exception: self.db.rollback(); raise.
\* ret.src records the step that failed.
Fail(w) ==
    /\ tx[w].pc \in StorageSteps
    /\ ret' = [op |-> "submit", args |-> <<>>, ok |-> FALSE,
               src |-> tx[w].pc, val |-> <<>>]
    /\ tx' = [tx EXCEPT ![w] = IdleTx]
    /\ UNCHANGED <<users, game_sessions, leaderboard, redis_client, redis_ok, cache, nreads,
                 wsvars, job>>

\* ------------------------------------------------------------- the cache
\* CacheManager.get: None without a client, when the call raises, or on no data.
CacheGet(k) == IF redis_client /\ redis_ok THEN cache[k] ELSE None

\* CacheManager.set: setex(key, ttl, json.dumps(value)); nothing without a
\* client or when the call raises.
CacheSet(k, v) == IF redis_client /\ redis_ok THEN [cache EXCEPT ![k] = Some(v)] ELSE cache

\* Redis drops a key when its TTL runs out.
ExpireKey(k) ==
    /\ cache[k] # None
    /\ cache' = [cache EXCEPT ![k] = None]
    /\ UNCHANGED <<users, game_sessions, leaderboard, redis_client, redis_ok, tx, ret, nreads,
                 wsvars, job>>

\* ----------------------------------------- CacheManager called directly
\* The client is set and its calls succeed.
CacheUp == redis_client /\ redis_ok

\* What a CacheManager method returned: it did not raise.
CacheReturn(name, args, value) ==
    [op |-> name, args |-> args, ok |-> TRUE, src |-> "CacheManager", val |-> Some(value)]

\* Values given to set: an empty page and a page of one entry.
SetValues ==
    {<<>>, <<[rank |-> 1, user_id |-> 1, total_score |-> 300, games_played |-> 1]>>}

\* get(key): json.loads of the data, None for no data.
CallGet(k) ==
    /\ ret' = [CacheReturn("get", <<k>>, 0) EXCEPT !.val = CacheGet(k)]
    /\ UNCHANGED <<users, game_sessions, leaderboard, redis_client, redis_ok, cache,
                   tx, nreads, wsvars, job>>

\* set(key, value): True when setex was called and returned.
CallSet(k, v) ==
    /\ cache' = CacheSet(k, v)
    /\ ret' = CacheReturn("set", <<k>>, CacheUp)
    /\ UNCHANGED <<users, game_sessions, leaderboard, redis_client, redis_ok,
                   tx, nreads, wsvars, job>>

\* delete(key): bool(number of keys deleted).
CallDelete(k) ==
    /\ cache' = DeletePattern(cache, {k})
    /\ ret' = CacheReturn("delete", <<k>>, CacheUp /\ cache[k] # None)
    /\ UNCHANGED <<users, game_sessions, leaderboard, redis_client, redis_ok,
                   tx, nreads, wsvars, job>>

\* delete_pattern(pattern): the number of keys deleted.
CallDeletePattern(keys) ==
    /\ cache' = DeletePattern(cache, keys)
    /\ ret' = CacheReturn("delete_pattern", <<keys>>,
                          IF CacheUp THEN Cardinality({k \in keys : cache[k] # None})
                          ELSE 0)
    /\ UNCHANGED <<users, game_sessions, leaderboard, redis_client, redis_ok,
                   tx, nreads, wsvars, job>>

\* exists(key)
CallExists(k) ==
    /\ ret' = CacheReturn("exists", <<k>>, CacheUp /\ cache[k] # None)
    /\ UNCHANGED <<users, game_sessions, leaderboard, redis_client, redis_ok, cache,
                   tx, nreads, wsvars, job>>

\* Variant: no try/except around incrby, the error of the call propagates.
CacheIncrement_Propagates(k, amount) ==
    LET old == IF cache[k] = None THEN 0 ELSE cache[k][1]
    IN  IF CacheUp
        THEN [raised |-> FALSE, val |-> old + amount,
              cache |-> [cache EXCEPT ![k] = Some(old + amount)]]
        ELSE [raised |-> redis_client, val |-> 0, cache |-> cache]

\* increment(key, amount): incrby, the new value of the counter; 0 without a
\* client or when the call raises.
CacheIncrement(k, amount) ==
    LET old == IF cache[k] = None THEN 0 ELSE cache[k][1]
    IN  IF CacheUp
        THEN [raised |-> FALSE, val |-> old + amount,
              cache |-> [cache EXCEPT ![k] = Some(old + amount)]]
        ELSE [raised |-> FALSE, val |-> 0, cache |-> cache]

\* increment(key) on a counter; the counter is bounded.
CallIncrement(k) ==
    LET r == CacheIncrement(k, 1)
    IN  /\ (IF cache[k] = None THEN 0 ELSE cache[k][1]) < MaxCounter
        /\ cache' = r.cache
        /\ ret' = [CacheReturn("increment", <<k>>, r.val) EXCEPT !.ok = ~r.raised]
        /\ UNCHANGED <<users, game_sessions, leaderboard, redis_client, redis_ok,
                       tx, nreads, wsvars, job>>

\* The connection to Redis is lost: from now on every call on the client raises.
RedisDown ==
    /\ CacheUp
    /\ redis_ok' = FALSE
    /\ UNCHANGED <<users, game_sessions, leaderboard, redis_client, cache,
                   tx, ret, nreads, wsvars, job>>

\* The client reconnects.
RedisUp ==
    /\ redis_client /\ ~redis_ok
    /\ redis_ok' = TRUE
    /\ UNCHANGED <<users, game_sessions, leaderboard, redis_client, cache,
                   tx, ret, nreads, wsvars, job>>

\* ------------------------------------------------------------- the reads
Min(a, b) == IF a < b THEN a ELSE b

\* .join(User).filter(is_active == 1): the rows a read query ranges over.
JoinedActive == {e \in leaderboard : e.user_id \in users /\ e.is_active = 1}

\* Variant: ascending order.
SortedOrders_Ascending(rows) ==
    LET n == Cardinality(rows)
    IN  {f \in [1..n -> rows] :
            /\ \A i, j \in 1..n : i # j => f[i] # f[j]
            /\ \A i \in 1..n : \A j \in 1..n :
                   i < j => f[i].total_score <= f[j].total_score}

\* .order_by(desc(total_score)).all(): every order the database may return;
\* the order among equal totals is not determined by the query.
SortedOrders(rows) ==
    LET n == Cardinality(rows)
    IN  {f \in [1..n -> rows] :
            /\ \A i, j \in 1..n : i # j => f[i] # f[j]
            /\ \A i \in 1..n : \A j \in 1..n :
                   i < j => f[i].total_score >= f[j].total_score}

\* enumerate(entries, start=1) -> LeaderboardEntryResponse
TopListing(order) ==
    [i \in 1..Len(order) |->
        [rank |-> i, user_id |-> order[i].user_id,
         total_score |-> order[i].total_score,
         games_played |-> order[i].games_played]]

\* result[offset : offset + limit]
Slice(s, offset, limit) ==
    IF offset >= Len(s) THEN <<>>
    ELSE SubSeq(s, offset + 1, Min(offset + limit, Len(s)))

LimitArgs == {None} \cup {Some(l) : l \in Limits}

\* limit = limit or settings.LEADERBOARD_TOP_N
EffectiveLimit(a) == IF a = None THEN LEADERBOARD_TOP_N ELSE a[1]

\* if cached_data: a cached value counts as a hit only when it is truthy.
Truthy(v) == v # <<>>

\* Variant: the page is cut out of the rows first and numbered afterwards.
get_top_leaderboard_RankAfterSlice(a, offset) ==
    LET limit == EffectiveLimit(a)
        cache_key == <<"top_leaderboard", limit, offset>>
        cached_data == CacheGet(cache_key)
    IN  /\ nreads < MaxReads
        /\ nreads' = nreads + 1
        /\ IF cached_data # None /\ Truthy(cached_data[1])
           THEN /\ ret' = [op |-> "top", args |-> <<limit, offset>>, ok |-> TRUE,
                           src |-> "cache", val |-> cached_data[1]]
                /\ UNCHANGED cache
           ELSE \E order \in SortedOrders(JoinedActive) :
                   LET paginated_result == TopListing(Slice(order, offset, limit))
                   IN  /\ cache' = CacheSet(cache_key, paginated_result)
                       /\ ret' = [op |-> "top", args |-> <<limit, offset>>, ok |-> TRUE,
                                  src |-> "db", val |-> paginated_result]
        /\ UNCHANGED <<users, game_sessions, leaderboard, redis_client, redis_ok, tx, job>>

get_top_leaderboard(a, offset) ==
    LET limit == EffectiveLimit(a)
        cache_key == <<"top_leaderboard", limit, offset>>
        cached_data == CacheGet(cache_key)
    IN  /\ nreads < MaxReads
        /\ nreads' = nreads + 1
        /\ IF cached_data # None /\ Truthy(cached_data[1])
           THEN /\ ret' = [op |-> "top", args |-> <<limit, offset>>, ok |-> TRUE,
                           src |-> "cache", val |-> cached_data[1]]
                /\ UNCHANGED cache
           ELSE \E order \in SortedOrders(JoinedActive) :
                   LET paginated_result == Slice(TopListing(order), offset, limit)
                   IN  /\ cache' = CacheSet(cache_key, paginated_result)
                       /\ ret' = [op |-> "top", args |-> <<limit, offset>>, ok |-> TRUE,
                                  src |-> "db", val |-> paginated_result]
        /\ UNCHANGED <<users, game_sessions, leaderboard, redis_client, redis_ok, tx, job>>

\* Variant: the share of the players at or above the rank.
Percentile_AtOrAbove(total_active_users, rank) ==
    IF total_active_users > 0
    THEN <<rank * 100, total_active_users>>
    ELSE <<0, 1>>

\* percentile = (total_active_users - rank) / total_active_users * 100,
\* kept as the exact fraction <<numerator, denominator>>.
Percentile(total_active_users, rank) ==
    IF total_active_users > 0
    THEN <<(total_active_users - rank) * 100, total_active_users>>
    ELSE <<0, 1>>

UserRankResponse(e) ==
    [user_id |-> e.user_id, rank |-> e.rank, total_score |-> e.total_score,
     games_played |-> e.games_played,
     percentile |-> Percentile(Cardinality(ActiveRows(leaderboard)), e.rank)]

\* What get_user_rank(p) returns: the cached value, else the stored row.
UserRankResult(p) ==
    LET cached_data == CacheGet(<<"user_rank", p, 0>>)
        result == {e \in JoinedActive : e.user_id = p}
    IN  IF cached_data # None THEN cached_data
        ELSE IF result = {} THEN None
        ELSE Some(UserRankResponse(CHOOSE e \in result : TRUE))

\* Variant: a lookup of a player without an entry creates an empty one.
get_user_rank_Creates(p) ==
    LET cached_data == CacheGet(<<"user_rank", p, 0>>)
    IN  /\ nreads < MaxReads
        /\ nreads' = nreads + 1
        /\ ret' = [op |-> "rank", args |-> <<p>>, ok |-> TRUE,
                   src |-> IF cached_data # None THEN "cache" ELSE "db",
                   val |-> UserRankResult(p)]
        /\ leaderboard' = IF EntryOf(leaderboard, p) = {} /\ p \in users
                          THEN leaderboard \cup {LeaderboardRow(p, 0, 0, 1, 1)}
                          ELSE leaderboard
        /\ UNCHANGED <<users, game_sessions, redis_client, redis_ok, cache, tx, job>>

get_user_rank(p) ==
    LET cache_key == <<"user_rank", p, 0>>
        cached_data == CacheGet(cache_key)
        response == UserRankResult(p)
    IN  /\ nreads < MaxReads
        /\ nreads' = nreads + 1
        /\ ret' = [op |-> "rank", args |-> <<p>>, ok |-> TRUE,
                   src |-> IF cached_data # None THEN "cache" ELSE "db",
                   val |-> response]
        /\ cache' = IF cached_data = None /\ response # None
                    THEN CacheSet(cache_key, response[1])
                    ELSE cache
        /\ UNCHANGED <<users, game_sessions, leaderboard, redis_client, redis_ok, tx, job>>

\* -------------------------------------------- batch_recalculate_rankings
\* .order_by(Leaderboard.rank).all(): every order the database may return;
\* the order among equal stored ranks is not determined by the query.
RankOrders(rows) ==
    LET n == Cardinality(rows)
    IN  {f \in [1..n -> rows] :
            /\ \A i, j \in 1..n : i # j => f[i] # f[j]
            /\ \A i \in 1..n : \A j \in 1..n :
                   i < j => f[i].rank <= f[j].rank}

\* The call of batch_recalculate_rankings(batch_size), by a session with
\* nothing pending.
BatchStart(bs) ==
    /\ AllIdle
    /\ job.pc = "idle"
    /\ job' = [IdleJob EXCEPT !.pc = "running", !.batch_size = bs]
    /\ UNCHANGED <<users, game_sessions, leaderboard, redis_client, redis_ok, cache,
                   tx, ret, nreads, wsvars>>

\* Variant: the job pages through and recalculates every entry, the
\* deactivated ones included.
BatchStep_AllRows ==
    /\ job.pc = "running"
    /\ \E order \in RankOrders(leaderboard) :
           LET page == Slice(order, job.offset, job.batch_size)
               ids == {page[i].user_id : i \in 1..Len(page)}
           IN  IF page = <<>>
               THEN /\ job' = [job EXCEPT !.pc = "done", !.queries = @ + 1]
                    /\ UNCHANGED leaderboard
               ELSE /\ leaderboard' =
                           {IF e.user_id \in ids
                            THEN [e EXCEPT !.rank =
                                     1 + Cardinality({f \in ActiveRows(leaderboard) :
                                                         f.total_score > e.total_score})]
                            ELSE e : e \in leaderboard}
                    /\ job' = [job EXCEPT !.offset = @ + job.batch_size,
                                          !.total_recalculated = @ + Len(page),
                                          !.recalculated = @ \cup ids,
                                          !.queries = @ + 1]
    /\ UNCHANGED <<users, game_sessions, redis_client, redis_ok, cache,
                   tx, ret, nreads, wsvars>>

\* Variant: the offset advances by one entry instead of one page.
BatchStep_OffsetByOne ==
    /\ job.pc = "running"
    /\ \E order \in RankOrders(ActiveRows(leaderboard)) :
           LET page == Slice(order, job.offset, job.batch_size)
               ids == {page[i].user_id : i \in 1..Len(page)}
           IN  IF page = <<>>
               THEN /\ job' = [job EXCEPT !.pc = "done", !.queries = @ + 1]
                    /\ UNCHANGED leaderboard
               ELSE /\ leaderboard' =
                           {IF e.user_id \in ids
                            THEN [e EXCEPT !.rank = calculate_rank(leaderboard, e.user_id)]
                            ELSE e : e \in leaderboard}
                    /\ job' = [job EXCEPT !.offset = @ + 1,
                                          !.total_recalculated = @ + Len(page),
                                          !.recalculated = @ \cup ids,
                                          !.queries = @ + 1]
    /\ UNCHANGED <<users, game_sessions, redis_client, redis_ok, cache,
                   tx, ret, nreads, wsvars>>

\* One pass of the while loop: the page of active entries at the offset in
\* stored-rank order, the recalculation and update of each of its players,
\* the commit and the advance of the offset; an empty page ends the job.
\* (_calculate_rank depends on the totals only, which the job leaves alone.)
BatchStep ==
    /\ job.pc = "running"
    /\ \E order \in RankOrders(ActiveRows(leaderboard)) :
           LET page == Slice(order, job.offset, job.batch_size)
               ids == {page[i].user_id : i \in 1..Len(page)}
           IN  IF page = <<>>
               THEN /\ job' = [job EXCEPT !.pc = "done", !.queries = @ + 1]
                    /\ UNCHANGED leaderboard
               ELSE /\ leaderboard' =
                           {IF e.user_id \in ids
                            THEN [e EXCEPT !.rank = calculate_rank(leaderboard, e.user_id)]
                            ELSE e : e \in leaderboard}
                    /\ job' = [job EXCEPT !.offset = @ + job.batch_size,
                                          !.total_recalculated = @ + Len(page),
                                          !.recalculated = @ \cup ids,
                                          !.queries = @ + 1]
    /\ UNCHANGED <<users, game_sessions, redis_client, redis_ok, cache,
                   tx, ret, nreads, wsvars>>

\* The same job statement by statement, its process liable to stop at any
\* point.  What the job's session reads: the committed table overlaid with
\* its own uncommitted updates.
JobView ==
    {e \in leaderboard : \A d \in job.pending : d.user_id # e.user_id}
        \cup job.pending

JobUnchanged ==
    UNCHANGED <<users, game_sessions, redis_client, redis_ok, cache,
                tx, ret, nreads, wsvars>>

BatchBegin(bs) ==
    /\ AllIdle
    /\ job.pc = "idle"
    /\ job' = [IdleJob EXCEPT !.pc = "query", !.batch_size = bs,
                              !.start = leaderboard]
    /\ UNCHANGED leaderboard
    /\ JobUnchanged

\* The query of the next page of user ids; an empty page ends the job.
BatchQuery ==
    /\ job.pc = "query"
    /\ \E order \in RankOrders(ActiveRows(JobView)) :
           LET page == Slice(order, job.offset, job.batch_size)
           IN  job' = IF page = <<>>
                      THEN [job EXCEPT !.pc = "done", !.queries = @ + 1]
                      ELSE [job EXCEPT !.pc = "update", !.queries = @ + 1,
                                       !.page = [i \in 1..Len(page) |-> page[i].user_id]]
    /\ UNCHANGED leaderboard
    /\ JobUnchanged

\* Variant: every update is committed as it is made.
BatchUpdate_Autocommit ==
    /\ job.pc = "update"
    /\ job.page # <<>>
    /\ LET user_id == Head(job.page)
           new_rank == calculate_rank(JobView, user_id)
       IN  /\ leaderboard' = {IF e.user_id = user_id THEN [e EXCEPT !.rank = new_rank]
                                ELSE e : e \in leaderboard}
           /\ job' = [job EXCEPT !.page = Tail(@), !.total_recalculated = @ + 1]
    /\ JobUnchanged

\* One pass of the for loop: the rank of the player is recalculated and the
\* player's row updated in the session.
BatchUpdate ==
    /\ job.pc = "update"
    /\ job.page # <<>>
    /\ LET user_id == Head(job.page)
           new_rank == calculate_rank(JobView, user_id)
           updated == {[e EXCEPT !.rank = new_rank] :
                          e \in {f \in JobView : f.user_id = user_id}}
       IN  job' = [job EXCEPT !.page = Tail(@), !.total_recalculated = @ + 1,
                              !.pending = {d \in @ : d.user_id # user_id} \cup updated]
    /\ UNCHANGED leaderboard
    /\ JobUnchanged

\* self.db.commit() after the for loop, and offset += batch_size.
BatchCommit ==
    /\ job.pc = "update"
    /\ job.page = <<>>
    /\ leaderboard' = JobView
    /\ job' = [job EXCEPT !.pc = "query", !.offset = @ + job.batch_size,
                          !.pending = {},
                          !.recalculated = @ \cup {d.user_id : d \in job.pending}]
    /\ JobUnchanged

\* The process stops: the open transaction is rolled back by the database.
BatchCrash ==
    /\ job.pc \in {"query", "update"}
    /\ job' = [job EXCEPT !.pc = "crashed", !.page = <<>>, !.pending = {},
                          !.lost = job.pending]
    /\ UNCHANGED leaderboard
    /\ JobUnchanged

\* ------------------------------------------------- ConnectionManager
\* active_connections is a dict user_id -> set of websockets: a sequence of
\* [user_id, websockets] in insertion order, one element per key.
HasKey(reg, u) == \E i \in 1..Len(reg) : reg[i].user_id = u

\* self.active_connections[user_id], the empty set when the key is absent.
ConnsOf(reg, u) ==
    IF HasKey(reg, u)
    THEN (CHOOSE e \in {reg[i] : i \in 1..Len(reg)} : e.user_id = u).websockets
    ELSE {}

Registered(reg) == UNION {reg[i].websockets : i \in 1..Len(reg)}

\* Variant: the set of the player id is created anew on every registration.
connect_NoKeyCheck(reg, c, u) ==
    LET without == SelectSeq(reg, LAMBDA e : e.user_id # u)
    IN  Append(without, [user_id |-> u, websockets |-> {c}])

\* connect, after websocket.accept(): create the key if absent, add to the set.
connect(reg, c, u) ==
    LET withKey == IF HasKey(reg, u) THEN reg
                   ELSE Append(reg, [user_id |-> u, websockets |-> {}])
    IN  [i \in 1..Len(withKey) |->
            IF withKey[i].user_id = u
            THEN [withKey[i] EXCEPT !.websockets = @ \cup {c}]
            ELSE withKey[i]]

\* Variant: the key of a player id is kept when its last connection goes.
disconnect_KeepsKey(reg, c, u) ==
    [i \in 1..Len(reg) |->
        IF reg[i].user_id = u
        THEN [reg[i] EXCEPT !.websockets = @ \ {c}]
        ELSE reg[i]]

\* disconnect: discard from the set of the key, delete the key of an empty set.
disconnect(reg, c, u) ==
    LET discarded == [i \in 1..Len(reg) |->
                         IF reg[i].user_id = u
                         THEN [reg[i] EXCEPT !.websockets = @ \ {c}]
                         ELSE reg[i]]
    IN  SelectSeq(discarded, LAMBDA e : e.websockets # {})

RECURSIVE SumLen(_)
SumLen(reg) ==
    IF reg = <<>> THEN 0 ELSE Cardinality(Head(reg).websockets) + SumLen(Tail(reg))

\* Variant: the player ids are counted, not their connections.
get_connection_count_Keys(reg) == Len(reg)

\* sum(len(conns) for conns in self.active_connections.values())
get_connection_count(reg) == SumLen(reg)

\* A broadcast holds references to the sets it took from the dict; a set
\* whose key is deleted from the dict is empty and stays empty, whatever is
\* registered under that player id afterwards.
MarkStale(ts, reg) ==
    [i \in 1..Len(ts) |->
        [ts[i] EXCEPT !.items =
            [j \in 1..Len(@) |->
                IF HasKey(reg, @[j].user_id) THEN @[j]
                ELSE [@[j] EXCEPT !.alive = FALSE]]]]

\* The event loop of the process runs one callback at a time; the
\* synchronous submit_score occupies it from entry to return.
LoopFree == loop_running /\ AllIdle

SnapshotEvent(entries) == [event_type |-> "leaderboard_snapshot", entries |-> entries]

\* websocket_leaderboard_endpoint up to its first receive_text(): accept
\* and register (manager.connect), read the top 100, send the snapshot.  An
\* error of accept or of the storage ends the handler with the connection
\* unregistered; a failed snapshot send is logged by send_snapshot and the
\* handler goes on to listen.
WsConnect(c, u) ==
    /\ LoopFree
    /\ ws[c].pc = "new"
    /\ \E ok \in BOOLEAN :
           IF ok
           THEN /\ get_top_leaderboard(Some(LEADERBOARD_TOP_N), 0)
                /\ active_connections' = connect(active_connections, c, u)
                /\ \E sent \in BOOLEAN :
                       ws' = [ws EXCEPT ![c] =
                                 [pc |-> "listening", user_id |-> u,
                                  received |-> IF sent THEN <<SnapshotEvent(ret'.val)>>
                                               ELSE <<>>,
                                  send_failed |-> ~sent]]
                /\ UNCHANGED <<loop_running, tasks>>
           ELSE /\ ws' = [ws EXCEPT ![c] = ClosedWs]
                /\ UNCHANGED <<users, game_sessions, leaderboard, redis_client, redis_ok,
                               cache, tx, ret, nreads, loop_running,
                               active_connections, tasks, job>>

\* The endpoint's except branches: manager.disconnect and the end of the handler.
WsClose(c) ==
    /\ active_connections' = disconnect(active_connections, c, ws[c].user_id)
    /\ tasks' = MarkStale(tasks, active_connections')
    /\ ws' = [ws EXCEPT ![c] = ClosedWs]

\* The receive loop: receive_text() raises WebSocketDisconnect, or returns
\* "ping" and the send of "pong" raises.  (Any other message, and a "pong"
\* that is sent, change nothing.)
WsReceive(c) ==
    /\ LoopFree
    /\ ws[c].pc = "listening"
    /\ WsClose(c)
    /\ UNCHANGED <<users, game_sessions, leaderboard, redis_client, redis_ok,
                   cache, tx, ret, nreads, loop_running, job>>

\* ------------------------------------------------- broadcast_update
\* The position of a broadcast after skipping the exhausted inner lists:
\* the next non-empty list(websockets) is taken from the set of its key.
RECURSIVE NextInner(_, _)
NextInner(t, reg) ==
    IF t.inner # {} \/ t.items = <<>> THEN t
    ELSE NextInner([t EXCEPT !.items = Tail(t.items),
                             !.cur_user = Head(t.items).user_id,
                             !.inner = IF Head(t.items).alive
                                       THEN ConnsOf(reg, Head(t.items).user_id)
                                       ELSE {}],
                   reg)

\* list(self.active_connections.items())
ItemsOf(reg) == [i \in 1..Len(reg) |-> [user_id |-> reg[i].user_id, alive |-> TRUE]]

RemoveAt(seq, i) == SubSeq(seq, 1, i - 1) \o SubSeq(seq, i + 1, Len(seq))

\* Variant: the inner loop does not move on from the websocket it has sent to.
Sent_NoAdvance(t, c) == [t EXCEPT !.at = Some(c)]

\* for websocket in list(websockets): the broadcast awaits send_text of c.
Sent(t, c) == [t EXCEPT !.inner = @ \ {c}, !.at = Some(c)]

\* Variant: the error of a send ends the broadcast.
OnSendError_Aborts(ts, i, t) == RemoveAt(ts, i)

\* except Exception around send_text: the error is logged and the loops go on.
OnSendError(ts, i, t) == [ts EXCEPT ![i] = t]

\* One run of broadcast_update between two suspensions: it starts (the
\* coroutines start in the order they were scheduled) or resumes from its
\* send, and either ends or calls send_text on the next websocket.  The send
\* delivers the message or raises; when it raises the websocket is
\* disconnected.  A websocket whose handler has ended is closed: the send
\* raises.
BroadcastStep(i) ==
    /\ LoopFree
    /\ i \in 1..Len(tasks)
    /\ tasks[i].state = "scheduled" =>
            \A j \in 1..(i - 1) : tasks[j].state # "scheduled"
    /\ LET started == IF tasks[i].state = "scheduled"
                      THEN [tasks[i] EXCEPT !.state = "running",
                                            !.items = ItemsOf(active_connections),
                                            !.at_start = Registered(active_connections)]
                      ELSE tasks[i]
           t == NextInner(started, active_connections)
       IN  IF t.inner = {}
           THEN /\ tasks' = RemoveAt(tasks, i)
                /\ UNCHANGED <<active_connections, ws>>
           ELSE \E c \in t.inner :
                \E delivered \in {b \in BOOLEAN : b => ws[c].pc # "closed"} :
                   LET after == Sent(t, c)
                   IN  IF delivered
                       THEN /\ ws' = [ws EXCEPT ![c].received = Append(@, t.event)]
                            /\ tasks' = [tasks EXCEPT ![i] = after]
                            /\ UNCHANGED active_connections
                       ELSE /\ ws' = IF ws[c].pc = "closed" THEN ws
                                       ELSE [ws EXCEPT ![c].send_failed = TRUE]
                            /\ active_connections' =
                                   disconnect(active_connections, c, t.cur_user)
                            /\ tasks' = MarkStale(OnSendError(tasks, i, after),
                                                  active_connections')
    /\ UNCHANGED <<users, game_sessions, leaderboard, redis_client, redis_ok,
                   cache, tx, ret, nreads, loop_running, job>>

\* ------------------------------------------------ POST /submit
\* GameModeEnum
GameModes == {"classic", "ranked", "tournament", "survival"}

\* Request bodies, invalid ones included.
RawIds == {-1, 0, 1, 2}
RawScores == {-5, 0, 300}
RawModes == {"classic", "arcade"}

\* Variant: the score is not checked.
ValidRequest_NoScoreCheck(uid, sc, mode) == uid > 0 /\ mode \in GameModes

\* ScoreSubmitRequest: user_id gt 0, score gt 0, game_mode a GameModeEnum.
ValidRequest(uid, sc, mode) == uid > 0 /\ sc > 0 /\ mode \in GameModes

\* POST /api/leaderboard/submit: the body is validated against
\* ScoreSubmitRequest before the endpoint function is called; an invalid body
\* is answered with a validation error and submit_score is not called.
PostSubmit(w, uid, sc, mode) ==
    /\ AllIdle
    /\ IF ValidRequest(uid, sc, mode)
       THEN SubmitBegin(w, uid, sc)
       ELSE /\ ret' = [op |-> "submit", args |-> <<>>, ok |-> FALSE,
                       src |-> "validation", val |-> <<>>]
            /\ UNCHANGED <<users, game_sessions, leaderboard, redis_client, redis_ok,
                           cache, tx, nreads, wsvars, job>>

\* ------------------------------------------------------ specifications
\* Calls run one at a time.
Submit(w, p, sc) == AllIdle /\ SubmitBegin(w, p, sc)
GetTop(a, o) == AllIdle /\ get_top_leaderboard(a, o) /\ UNCHANGED wsvars
GetUserRank(p) == AllIdle /\ get_user_rank(p) /\ UNCHANGED wsvars

Next ==
    \/ \E p \in Players, sc \in Scores : Submit("w1", p, sc)
    \/ \E w \in Workers : QueryUser(w)
    \/ \E w \in Workers : AddSession(w)
    \/ \E w \in Workers : QueryEntry(w)
    \/ \E w \in Workers : FlushEntry(w)
    \/ \E w \in Workers : RecalcRank(w)
    \/ \E w \in Workers : InvalidateCache(w)
    \/ \E w \in Workers : Commit(w)
    \/ \E w \in Workers : Fail(w)
    \/ \E a \in LimitArgs, o \in Offsets : GetTop(a, o)
    \/ \E p \in Players : GetUserRank(p)
    \/ \E k \in Keys : ExpireKey(k)

Spec == Init /\ [][Next]_vars

\* The submissions alone, one at a time.
NextSubmit ==
    \/ \E p \in Players, sc \in Scores : Submit("w1", p, sc)
    \/ \E w \in Workers : QueryUser(w)
    \/ \E w \in Workers : AddSession(w)
    \/ \E w \in Workers : QueryEntry(w)
    \/ \E w \in Workers : FlushEntry(w)
    \/ \E w \in Workers : RecalcRank(w)
    \/ \E w \in Workers : InvalidateCache(w)
    \/ \E w \in Workers : Commit(w)
    \/ \E w \in Workers : Fail(w)

SpecSubmit == Init /\ [][NextSubmit]_vars

\* Storage sessions of several server processes run concurrently.
ConcSubmit(w, p, sc) == SubmitBegin(w, p, sc)

NextConc ==
    \/ \E w \in Workers, p \in Players, sc \in Scores : ConcSubmit(w, p, sc)
    \/ \E w \in Workers : QueryUser(w)
    \/ \E w \in Workers : AddSession(w)
    \/ \E w \in Workers : QueryEntry(w)
    \/ \E w \in Workers : FlushEntry(w)
    \/ \E w \in Workers : RecalcRank(w)
    \/ \E w \in Workers : InvalidateCache(w)
    \/ \E w \in Workers : Commit(w)
    \/ \E w \in Workers : Fail(w)

SpecConc == Init /\ [][NextConc]_vars

\* One server process with a running event loop, started on empty tables
\* with Redis connected: submissions, viewers' WebSocket handlers and the
\* broadcasts the submissions schedule.
InitWS ==
    /\ users = {}
    /\ game_sessions = <<>>
    /\ leaderboard = {}
    /\ redis_client = TRUE
    /\ redis_ok = TRUE
    /\ cache = [k \in Keys |-> None]
    /\ tx = [w \in Workers |-> IdleTx]
    /\ ret = NoRet
    /\ nreads = 0
    /\ loop_running = TRUE
    /\ active_connections = <<>>
    /\ tasks = <<>>
    /\ ws = [c \in Conns |-> NewWs]
    /\ job = IdleJob

\* The number of submissions, hence of broadcasts, is bounded.
WsSubmit(p, sc) == Len(game_sessions) < MaxBroadcasts /\ Submit("w1", p, sc)

NextWS ==
    \/ \E p \in Submitters, sc \in {300} : WsSubmit(p, sc)
    \/ \E w \in Workers : QueryUser(w)
    \/ \E w \in Workers : AddSession(w)
    \/ \E w \in Workers : QueryEntry(w)
    \/ \E w \in Workers : FlushEntry(w)
    \/ \E w \in Workers : RecalcRank(w)
    \/ \E w \in Workers : InvalidateCache(w)
    \/ \E w \in Workers : Commit(w)
    \/ \E w \in Workers : Fail(w)
    \/ \E c \in Conns, u \in ViewerIds : WsConnect(c, u)
    \/ \E c \in Conns : WsReceive(c)
    \/ \E i \in TaskIds : BroadcastStep(i)

SpecWS == InitWS /\ [][NextWS]_vars

\* The manager on its own: connect and disconnect called with any websocket
\* and any player id.  (websocket.accept() raising on a websocket that is
\* already accepted leaves the registry as it is, as the registration does.)
ManagerConnect(c, u) ==
    /\ active_connections' = connect(active_connections, c, u)
    /\ tasks' = tasks
    /\ UNCHANGED <<users, game_sessions, leaderboard, redis_client, redis_ok,
                   cache, tx, ret, nreads, loop_running, ws, job>>

ManagerDisconnect(c, u) ==
    /\ active_connections' = disconnect(active_connections, c, u)
    /\ tasks' = MarkStale(tasks, active_connections')
    /\ UNCHANGED <<users, game_sessions, leaderboard, redis_client, redis_ok,
                   cache, tx, ret, nreads, loop_running, ws, job>>

NextManager ==
    \/ \E c \in Conns, u \in Players : ManagerConnect(c, u)
    \/ \E c \in Conns, u \in Players : ManagerDisconnect(c, u)

SpecManager == InitWS /\ [][NextManager]_vars

\* The reconciliation job run once, after submissions made one at a time
\* and with no writer beside it.
BatchSubmit(p, sc) == job.pc = "idle" /\ Submit("w1", p, sc)

NextBatch ==
    \/ \E p \in Players, sc \in Scores : BatchSubmit(p, sc)
    \/ \E w \in Workers : QueryUser(w)
    \/ \E w \in Workers : AddSession(w)
    \/ \E w \in Workers : QueryEntry(w)
    \/ \E w \in Workers : FlushEntry(w)
    \/ \E w \in Workers : RecalcRank(w)
    \/ \E w \in Workers : InvalidateCache(w)
    \/ \E w \in Workers : Commit(w)
    \/ \E w \in Workers : Fail(w)
    \/ \E bs \in BatchSizes : BatchStart(bs)
    \/ BatchStep

SpecBatch == Init /\ [][NextBatch]_vars

\* The same with the job's loop running on once it has been called.
SpecBatchFair == Init /\ [][NextBatch]_vars /\ WF_vars(BatchStep)

\* The reconciliation job statement by statement, possibly interrupted,
\* after submissions made one at a time.
NextBatchCrash ==
    \/ \E p \in Players, sc \in Scores : BatchSubmit(p, sc)
    \/ \E w \in Workers : QueryUser(w)
    \/ \E w \in Workers : AddSession(w)
    \/ \E w \in Workers : QueryEntry(w)
    \/ \E w \in Workers : FlushEntry(w)
    \/ \E w \in Workers : RecalcRank(w)
    \/ \E w \in Workers : InvalidateCache(w)
    \/ \E w \in Workers : Commit(w)
    \/ \E w \in Workers : Fail(w)
    \/ \E bs \in BatchSizes : BatchBegin(bs)
    \/ BatchQuery
    \/ BatchUpdate
    \/ BatchCommit
    \/ BatchCrash

SpecBatchCrash == Init /\ [][NextBatchCrash]_vars

\* The HTTP API of one server process with a running event loop and Redis
\* connected: request bodies of any content, and the listing.  The number of
\* submissions, hence of scheduled broadcasts, is bounded.
ApiSubmit(uid, sc, mode) ==
    Len(game_sessions) < MaxBroadcasts /\ PostSubmit("w1", uid, sc, mode)

NextApi ==
    \/ \E uid \in RawIds, sc \in RawScores, mode \in RawModes :
           ApiSubmit(uid, sc, mode)
    \/ \E w \in Workers : QueryUser(w)
    \/ \E w \in Workers : AddSession(w)
    \/ \E w \in Workers : QueryEntry(w)
    \/ \E w \in Workers : FlushEntry(w)
    \/ \E w \in Workers : RecalcRank(w)
    \/ \E w \in Workers : InvalidateCache(w)
    \/ \E w \in Workers : Commit(w)
    \/ \E w \in Workers : Fail(w)
    \/ \E a \in LimitArgs, o \in Offsets : GetTop(a, o)

SpecApi == InitWS /\ [][NextApi]_vars

\* The Cache Store on its own, the tables empty: its methods called with
\* any key while the connection comes and goes; values are set under the
\* keys of the first pages.
InitCache == Init /\ users = {}
Patterns == {TopKeys, UserKeys, Keys}
SetKeys == {k \in TopKeys : k[3] = 0}

NextCache ==
    \/ \E k \in Keys : CallGet(k)
    \/ \E k \in SetKeys, v \in SetValues : CallSet(k, v)
    \/ \E k \in Keys : CallDelete(k)
    \/ \E keys \in Patterns : CallDeletePattern(keys)
    \/ \E k \in Keys : CallExists(k)
    \/ \E k \in CounterKeys : CallIncrement(k)
    \/ RedisDown
    \/ RedisUp

SpecCache == InitCache /\ [][NextCache]_vars

\* Reads served by other storage sessions (other server processes) while a
\* submission is between two of its steps, with Redis connected; the
\* submissions themselves run one at a time and no key expires.
InitReadConc == Init /\ redis_client /\ redis_ok

ReadTop(a, o) == get_top_leaderboard(a, o) /\ UNCHANGED wsvars
ReadUserRank(p) == get_user_rank(p) /\ UNCHANGED wsvars

NextReadConc ==
    \/ \E p \in Players, sc \in Scores : Submit("w1", p, sc)
    \/ \E w \in Workers : QueryUser(w)
    \/ \E w \in Workers : AddSession(w)
    \/ \E w \in Workers : QueryEntry(w)
    \/ \E w \in Workers : FlushEntry(w)
    \/ \E w \in Workers : RecalcRank(w)
    \/ \E w \in Workers : InvalidateCache(w)
    \/ \E w \in Workers : Commit(w)
    \/ \E w \in Workers : Fail(w)
    \/ \E a \in LimitArgs, o \in Offsets : ReadTop(a, o)
    \/ \E p \in Players : ReadUserRank(p)

SpecReadConc == InitReadConc /\ [][NextReadConc]_vars

\* Submissions one at a time, started with one player who was deactivated
\* after a single game of 200 points; every player has a Player row.
InitDeactivated ==
    /\ users = Players
    /\ game_sessions = <<GameSessionRow(NumPlayers, 200)>>
    /\ leaderboard = {LeaderboardRow(NumPlayers, 200, 1, 1, 0)}
    /\ redis_client = TRUE
    /\ redis_ok = TRUE
    /\ cache = [k \in Keys |-> None]
    /\ tx = [w \in Workers |-> IdleTx]
    /\ ret = NoRet
    /\ nreads = 0
    /\ loop_running = FALSE
    /\ active_connections = <<>>
    /\ tasks = <<>>
    /\ ws = [c \in Conns |-> NewWs]
    /\ job = IdleJob

SpecDeactivated == InitDeactivated /\ [][NextSubmit]_vars

\* ------------------------------------------------------------- properties
\* The step of session w that ends its submit_score call.
Ends(w) == tx[w].pc # "idle" /\ tx'[w].pc = "idle"

\* The step of session w that commits and returns.
CommitStep(w) == tx[w].pc = "commit" /\ Ends(w) /\ ret'.op = "submit" /\ ret'.ok

\* 1 + the number of active entries with a strictly greater total.
DenseRank(tbl, e) ==
    1 + Cardinality({f \in ActiveRows(tbl) : f.total_score > e.total_score})

\* C1: with submissions run one at a time, every player's entry total equals
\* the sum of the scores of that player's Game Session rows (no entry: no rows).
C1_TotalIsSumOfSessions ==
    \A p \in Players :
        /\ \A e \in EntryOf(leaderboard, p) :
               e.total_score = SumScores(game_sessions, p)
        /\ EntryOf(leaderboard, p) = {} => SumScores(game_sessions, p) = 0

\* A player whose total has accumulated over two successful submissions.
C1_Witness ==
    /\ ret.op = "submit" /\ ret.ok
    /\ \E e \in leaderboard :
           /\ e.games_played = 2 /\ e.total_score = 800
           /\ ret.val[1].total_score = 800
           /\ CountSessions(game_sessions, e.user_id) = 2

\* C2: at every quiescent point every active entry's stored rank, and the
\* rank get_user_rank reports for it, is 1 + the number of active entries
\* with a strictly greater total.
C2_StoredRankIsDense ==
    AllIdle =>
        /\ \A e \in ActiveRows(leaderboard) : e.rank = DenseRank(leaderboard, e)
        /\ (ret.op = "rank" /\ ret.val # None) =>
               \A e \in ActiveRows(leaderboard) :
                   e.user_id = ret.args[1] => ret.val[1].rank = DenseRank(leaderboard, e)

\* C3: with concurrent storage sessions, once all have committed no update
\* is lost: every entry's total is the sum of the player's session scores
\* and its games_played their number.
C3_NoLostUpdate ==
    AllIdle =>
        \A e \in leaderboard :
            /\ e.total_score = SumScores(game_sessions, e.user_id)
            /\ e.games_played = CountSessions(game_sessions, e.user_id)

\* C4: submit_score is atomic: no step before the commit changes a table; a
\* call that ends in a failure of one of its steps up to the commit has
\* discarded its pending writes and leaves the three tables as they were
\* when it began; a call that ends in success commits the Player row, the
\* Game Session row and the entry in one step.  (A failure of the reads made
\* for the return value, ret.src = "return", comes after the commit and is
\* not one of the steps the claim lists.)
C4_Atomic ==
    [][\A w \in Workers :
          /\ (tx[w].pc # "idle" /\ ~Ends(w)) => tables' = tables
          /\ Ends(w) =>
                /\ ret'.op = "submit"
                /\ tx'[w] = IdleTx
                /\ IF ret'.ok
                   THEN LET pl == tx[w].user_id
                            pre == tx[w].pre
                        IN  /\ tx[w].pc = "commit"
                            /\ users' = pre[1] \cup {pl}
                            /\ game_sessions' =
                                   Append(pre[2], GameSessionRow(pl, tx[w].score))
                            /\ ret'.val[1].session_id = Len(game_sessions')
                            /\ {f \in leaderboard' : f.user_id # pl}
                                   = {f \in pre[3] : f.user_id # pl}
                            /\ \E e \in leaderboard' :
                                   /\ e.user_id = pl
                                   /\ e.total_score = ret'.val[1].total_score
                                   /\ e.rank = ret'.val[1].rank
                                   /\ e.total_score =
                                        tx[w].score + SumScores(pre[2], pl)
                   ELSE ret'.src \in StorageSteps => tables' = tx[w].pre
      ]_vars

\* A submission for an existing entry has failed at the commit, after all
\* its writes were flushed.
C4_Witness ==
    /\ ret.op = "submit" /\ ~ret.ok /\ ret.src = "commit"
    /\ Len(game_sessions) = 2
    /\ \E e \in leaderboard : e.games_played = 2

\* C5: no player ever has two entries, and the commit of a submission for
\* an id without a Player row creates that row and one entry with
\* games_played = 1 and total_score = the submitted score.
C5_OneEntryPerPlayer ==
    /\ [](\A p \in Players : Cardinality(EntryOf(leaderboard, p)) <= 1)
    /\ [][\A w \in Workers :
             (CommitStep(w) /\ tx[w].user_id \notin users) =>
                 LET pl == tx[w].user_id
                 IN  /\ users' = users \cup {pl}
                     /\ EntryOf(leaderboard, pl) = {}
                     /\ EntryOf(leaderboard', pl) =
                            {LeaderboardRow(pl, tx[w].score, 1, ret'.val[1].rank, 1)}
                     /\ ret'.val[1].total_score = tx[w].score
         ]_vars

\* Two players were created by their first submissions.
C5_Witness ==
    /\ users = {1, 2}
    /\ ret.op = "submit" /\ ret.ok
    /\ Cardinality(leaderboard) = 2
    /\ \A e \in leaderboard : e.games_played = 1

\* C6: the rank_change returned is 0 when the player had no entry, and
\* otherwise the rank stored before minus the rank stored after: positive
\* exactly when the rank number went down, negative exactly when it went up.
C6_RankChange ==
    [][\A w \in Workers :
          CommitStep(w) =>
              LET before == EntryOf(leaderboard, tx[w].user_id)
                  after == EntryOf(leaderboard', tx[w].user_id)
                  r == ret'.val[1]
              IN  /\ before = {} => r.rank_change = 0
                  /\ \A b \in before : \A a \in after :
                         /\ a.rank = r.rank
                         /\ r.rank_change = b.rank - r.rank
                         /\ r.rank_change > 0 <=> r.rank < b.rank
                         /\ r.rank_change < 0 <=> r.rank > b.rank
      ]_vars

\* A submission has moved the player up one rank.
C6_Witness ==
    /\ ret.op = "submit" /\ ret.ok
    /\ ret.val[1].rank_change = 1
    /\ ret.val[1].rank = 1

\* C7: with submissions run one at a time, every player's games_played is
\* the number of that player's Game Session rows.
C7_GamesPlayedIsSessionCount ==
    \A p \in Players :
        /\ \A e \in EntryOf(leaderboard, p) :
               e.games_played = CountSessions(game_sessions, p)
        /\ EntryOf(leaderboard, p) = {} => CountSessions(game_sessions, p) = 0

\* One player has submitted 500, 300, 200: total 1000 in 3 games.
C7_Witness ==
    /\ ret.op = "submit" /\ ret.ok
    /\ \E p \in Players :
           /\ game_sessions = <<GameSessionRow(p, 500), GameSessionRow(p, 300),
                                GameSessionRow(p, 200)>>
           /\ EntryOf(leaderboard, p) = {LeaderboardRow(p, 1000, 3, 1, 1)}

\* Two players without history have each submitted the same score into an
\* empty leaderboard.
TieScenario(p, q) ==
    /\ p # q
    /\ AllIdle
    /\ Len(game_sessions) = 2
    /\ game_sessions[1].user_id = p /\ game_sessions[2].user_id = q
    /\ game_sessions[1].score = game_sessions[2].score
    /\ {e.user_id : e \in leaderboard} = {p, q}
    /\ \A e \in leaderboard : e.is_active = 1

\* C8: in the tie scenario get_user_rank reports the same total and rank 1
\* for both players.
C8_TieSameRank ==
    \A p, q \in Players :
        TieScenario(p, q) =>
            LET rp == UserRankResult(p)
                rq == UserRankResult(q)
            IN  /\ rp # None /\ rq # None
                /\ rp[1].total_score = rq[1].total_score
                /\ rp[1].rank = 1 /\ rq[1].rank = 1
                /\ (ret.op = "rank" /\ ret.args[1] \in {p, q}) =>
                       /\ ret.val # None
                       /\ ret.val[1].rank = 1
                       /\ ret.val[1].total_score = game_sessions[1].score

\* Both players of the tie have been looked up, the first lookup is cached.
C8_Witness ==
    \E p, q \in Players :
        /\ TieScenario(p, q)
        /\ nreads = 2
        /\ ret.op = "rank" /\ ret.args = <<q>> /\ ret.src = "db"
        /\ cache[<<"user_rank", p, 0>>] # None

\* C9: a get_top_leaderboard(limit, 0) answered from storage lists
\* min(limit, number of active entries) active entries, display ranks 1..N,
\* totals non-increasing, no entry twice, none left out that beats a listed
\* one; after three new players submit a middle, a high and a low score the
\* listing (limit >= 3) is high, middle, low.
C9_TopListing ==
    (ret.op = "top" /\ ret.args[2] = 0) =>
        LET v == ret.val
            act == ActiveRows(leaderboard)
        IN  /\ ret.src = "db" =>
                /\ Len(v) = Min(ret.args[1], Cardinality(act))
                /\ \A i \in 1..Len(v) :
                       /\ v[i].rank = i
                       /\ \E e \in act : /\ e.user_id = v[i].user_id
                                         /\ e.total_score = v[i].total_score
                                         /\ e.games_played = v[i].games_played
                /\ \A i, j \in 1..Len(v) :
                       /\ i < j => v[i].total_score >= v[j].total_score
                       /\ i # j => v[i].user_id # v[j].user_id
                /\ \A e \in act :
                       (\A i \in 1..Len(v) : v[i].user_id # e.user_id) =>
                           \A i \in 1..Len(v) : v[i].total_score >= e.total_score
            /\ (/\ game_sessions = <<GameSessionRow(1, 300), GameSessionRow(2, 500),
                                     GameSessionRow(3, 200)>>
                /\ ret.args[1] >= 3) =>
                   /\ Len(v) = 3
                   /\ <<v[1].user_id, v[2].user_id, v[3].user_id>> = <<2, 1, 3>>
                   /\ <<v[1].total_score, v[2].total_score, v[3].total_score>>
                          = <<500, 300, 200>>

\* The three-player listing has been read from storage.
C9_Witness ==
    /\ game_sessions = <<GameSessionRow(1, 300), GameSessionRow(2, 500),
                         GameSessionRow(3, 200)>>
    /\ ret.op = "top" /\ ret.src = "db" /\ ret.args = <<LEADERBOARD_TOP_N, 0>>
    /\ Len(ret.val) = 3

\* C10: a get_top_leaderboard call that directly follows one with the same
\* limit and offset returns the same result and, when the cache holds the
\* first result, is served from the cache.
C10_SecondCallFromCache ==
    [][\A a \in LimitArgs, o \in Offsets :
          (/\ ret.op = "top"
           /\ ret.args = <<EffectiveLimit(a), o>>
           /\ GetTop(a, o)) =>
              /\ ret'.val = ret.val
              /\ (/\ redis_client /\ redis_ok
                  /\ cache[<<"top_leaderboard", EffectiveLimit(a), o>>] = Some(ret.val)) =>
                     ret'.src = "cache"
      ]_vars

\* What get_user_rank(p) computes from the tables alone.
StoredUserRank(p) ==
    LET result == {e \in JoinedActive : e.user_id = p}
    IN  IF result = {} THEN None
        ELSE Some(UserRankResponse(CHOOSE e \in result : TRUE))

\* C11: while the cache has no client or every cache call raises, no call
\* fails because of it and the cache plays no part: the invalidation step of
\* submit_score goes on to the commit, the value submit_score returns is the
\* committed entry's, and get_top_leaderboard and get_user_rank succeed with
\* the value computed from the tables; the cache contents never change.
C11_CacheUnavailable ==
    [][~(redis_client /\ redis_ok) =>
          /\ cache' = cache
          /\ \A w \in Workers :
                 /\ (tx[w].pc = "invalidate" /\ tx'[w] # tx[w]) => tx'[w].pc = "commit"
                 /\ CommitStep(w) =>
                        \E e \in EntryOf(leaderboard', tx[w].user_id) :
                            /\ ret'.val[1].total_score = e.total_score
                            /\ ret'.val[1].rank = e.rank
          /\ (nreads' # nreads /\ ret'.op = "top") =>
                 /\ ret'.ok /\ ret'.src = "db"
                 /\ \E order \in SortedOrders(JoinedActive) :
                        ret'.val = Slice(TopListing(order), ret'.args[2], ret'.args[1])
          /\ (nreads' # nreads /\ ret'.op = "rank") =>
                 /\ ret'.ok /\ ret'.src = "db"
                 /\ ret'.val = StoredUserRank(ret'.args[1])
      ]_vars

\* With every cache call raising, two submissions were committed and the
\* same player's rank was then looked up twice.
C11_Witness ==
    /\ redis_client /\ ~redis_ok
    /\ Len(game_sessions) >= 2
    /\ nreads = 2
    /\ ret.op = "rank" /\ ret.ok /\ ret.val # None

IsSnapshot(m) == m.event_type = "leaderboard_snapshot"
IsUpdate(m) == m.event_type = "leaderboard_update"

\* C12: whatever a registered connection has received begins with the
\* snapshot and holds no second snapshot: no update event is delivered to it
\* before, or without, its one snapshot.
C12_SnapshotFirst ==
    \A c \in Conns :
        LET r == ws[c].received
        IN  /\ r # <<>> => IsSnapshot(r[1])
            /\ \A i \in 2..Len(r) : IsUpdate(r[i])

\* How many times message m occurs in the sequence r.
Count(m, r) == Cardinality({i \in 1..Len(r) : r[i] = m})

\* The step in which broadcast i ends.
BroadcastEnds(i) == i \in 1..Len(tasks) /\ tasks' = RemoveAt(tasks, i)

\* At the end of broadcast i every connection that was registered when it
\* started, is still registered and has had no failed send holds its event
\* exactly once.
DeliveredOnce(i) ==
    \A c \in tasks[i].at_start \cap Registered(active_connections) :
        ~ws[c].send_failed => Count(tasks[i].event, ws[c].received) = 1

\* C13: the step in which submit_score returns its result schedules exactly
\* one broadcast, of that submission's event; a submit_score call that ends
\* in a failure schedules none; a broadcast that ends has delivered its event
\* exactly once to every connection registered from its start to its end
\* without a failed send.
C13_OneEventPerSubmission ==
    [][/\ \A w \in Workers :
             /\ CommitStep(w) =>
                    tasks' = Append(tasks, ScheduledTask(UpdateEvent(tx[w])))
             /\ (Ends(w) /\ ~ret'.ok) => tasks' = tasks
       /\ \A i \in 1..Len(tasks) : BroadcastEnds(i) => DeliveredOnce(i)
      ]_vars

\* The step in which broadcast i calls send_text on websocket c.
SendStep(i, c) ==
    /\ i \in 1..Len(tasks)
    /\ Len(tasks') = Len(tasks)
    /\ tasks'[i].at = Some(c)
    /\ \/ tasks'[i].state # tasks[i].state
       \/ Len(tasks'[i].items) < Len(tasks[i].items)
       \/ tasks'[i].inner # tasks[i].inner

\* The send of that step raised: nothing was delivered.
SendFails(i, c) == SendStep(i, c) /\ ws'[c].received = ws[c].received

\* C14: a step of a broadcast whose send raises leaves the broadcast running
\* and has removed the websocket from the registry; when a broadcast ends,
\* every connection that was registered at its start and is still registered
\* has received its event: none was left out because another one's send failed.
C14_FailureIsolated ==
    [][\A i \in 1..Len(tasks) :
          /\ \A c \in Conns :
                 SendFails(i, c) =>
                     /\ c \notin Registered(active_connections')
                     /\ tasks'[i].state = "running"
                     /\ tasks'[i].event = tasks[i].event
          /\ BroadcastEnds(i) =>
                 \A c \in tasks[i].at_start \cap Registered(active_connections) :
                     Count(tasks[i].event, ws[c].received) >= 1
      ]_vars

\* A broadcast over two connections: the send to one raised, then the
\* event was delivered to the other.
C14_Witness ==
    /\ Len(game_sessions) = 1
    /\ Len(tasks) = 1
    /\ \E c, d \in Conns :
           /\ c # d
           /\ tasks[1].at_start = {c, d}
           /\ tasks[1].at = Some(d)
           /\ Count(tasks[1].event, ws[d].received) = 1
           /\ ws[c].send_failed /\ Len(ws[c].received) = 1
           /\ Registered(active_connections) = {d}

\* The step of session w that commits.
Commits(w) == tx[w].pc = "commit" /\ Ends(w) /\ game_sessions' # game_sessions

\* C15: no error of the broadcast fails or undoes a submission: a
\* submit_score call that has committed and signals a failure does so for
\* the storage read of its return value, never for the broadcast; whether or
\* not the event was scheduled, the rows of the commit are in the tables;
\* and the steps of the broadcasts, failed sends included, change neither the
\* tables nor what submit_score returned.
C15_BroadcastNeverFailsSubmit ==
    [][/\ \A w \in Workers :
             Commits(w) =>
                 /\ ~ret'.ok => ret'.src = "return"
                 /\ ret'.ok => ret' = SubmitResult(w)
                 /\ game_sessions' =
                        Append(game_sessions, GameSessionRow(tx[w].user_id, tx[w].score))
                 /\ tx[w].entry[1] \in leaderboard'
                 /\ tx[w].user_id \in users'
       /\ (AllIdle /\ (tasks' # tasks \/ ws' # ws)) =>
             /\ tables' = tables
             /\ ret'.op = "submit" => ret' = ret
      ]_vars

\* With the event loop running and one connection listening, a submission
\* has returned its result although its event was not scheduled.
C15_Witness ==
    /\ loop_running
    /\ ret.op = "submit" /\ ret.ok
    /\ Len(game_sessions) = 1
    /\ tasks = <<>>
    /\ \E c \in Conns :
           /\ c \in Registered(active_connections)
           /\ ~ws[c].send_failed
           /\ ws[c].received = <<SnapshotEvent(<<>>)>>

\* C16: the step in which submit_score returns its result sends nothing and
\* changes no registration: the broadcast it schedules has not started; and
\* a call can run from entry to return while an earlier broadcast stays
\* suspended at a send.
C16_ReturnsWithoutWaiting ==
    [][\A w \in Workers :
          /\ CommitStep(w) =>
                 /\ ws' = ws
                 /\ active_connections' = active_connections
                 /\ \A i \in 1..Len(tasks) : tasks'[i] = tasks[i]
                 /\ \A i \in (Len(tasks) + 1)..Len(tasks') :
                        /\ tasks'[i].state = "scheduled"
                        /\ tasks'[i].at = None
          /\ (tx[w].pc # "idle" \/ tx'[w].pc # "idle") =>
                 /\ ws' = ws
                 /\ \A i \in 1..Len(tasks) : tasks'[i] = tasks[i]
      ]_vars

\* The second submission has returned its result while the broadcast of
\* the first is still suspended at a send and its own has not started.
C16_Witness ==
    /\ ret.op = "submit" /\ ret.ok
    /\ ret.val[1].session_id = 2
    /\ Len(tasks) = 2
    /\ tasks[1].state = "running" /\ tasks[1].at # None /\ tasks[1].inner # {}
    /\ tasks[2].state = "scheduled"

\* C17: registering a connection under a player id it is already
\* registered under leaves the registry as it is, and from any registry
\* registering twice gives what registering once gives: the connection is
\* in the player's set once and get_connection_count counts it once.
C17_RegisterIdempotent ==
    \A c \in Conns, u \in Players :
        LET reg == active_connections
            once == connect(reg, c, u)
            twice == connect(once, c, u)
        IN  /\ twice = once
            /\ c \in ConnsOf(reg, u) => once = reg
            /\ c \in ConnsOf(once, u)
            /\ get_connection_count(twice) =
                   get_connection_count(reg) + (IF c \in ConnsOf(reg, u) THEN 0 ELSE 1)

\* A player id with two connections, another with one.
C17_Witness ==
    \E u, v \in Players :
        /\ u # v
        /\ ConnsOf(active_connections, u) = Conns
        /\ ConnsOf(active_connections, v) # {}
        /\ get_connection_count(active_connections) = 3
        /\ \A c \in Conns : connect(active_connections, c, u) = active_connections

KeysOf(reg) == {reg[i].user_id : i \in 1..Len(reg)}

\* C18: in every state no player-id key maps to an empty set (and no key
\* occurs twice); disconnect(c, u) takes c out of the set of u, deletes the
\* key of u exactly when c was its last connection, leaves the other keys as
\* they are, and changes nothing when c is not registered under u.
C18_NoEmptyKey ==
    LET reg == active_connections
    IN  /\ \A i \in 1..Len(reg) : reg[i].websockets # {}
        /\ \A i, j \in 1..Len(reg) : reg[i].user_id = reg[j].user_id => i = j
        /\ \A c \in Conns, u \in Players :
               LET r == disconnect(reg, c, u)
               IN  /\ ConnsOf(r, u) = ConnsOf(reg, u) \ {c}
                   /\ HasKey(r, u) <=> ConnsOf(reg, u) \ {c} # {}
                   /\ \A v \in Players \ {u} :
                          /\ ConnsOf(r, v) = ConnsOf(reg, v)
                          /\ HasKey(r, v) <=> HasKey(reg, v)
                   /\ c \notin ConnsOf(reg, u) => r = reg

\* The failed send of a broadcast has disconnected the last connection of a
\* player id, whose key is gone, while another player id keeps its key; the
\* handler of the disconnected websocket can still disconnect it again.
C18_Witness ==
    \E c, d \in Conns :
        /\ c # d
        /\ ws[c].pc = "listening" /\ ws[c].send_failed
        /\ ws[c].user_id # ws[d].user_id
        /\ KeysOf(active_connections) = {ws[d].user_id}
        /\ Registered(active_connections) = {d}
        /\ tasks # <<>>

\* The handler of c has registered it and it is no longer in the registry.
Unregistered(c) ==
    ws[c].pc \in {"listening", "closed"} /\ c \notin Registered(active_connections)

\* C19: a connection whose handler has ended, or to which a send of any
\* kind has failed, is not in the registry; once unregistered it stays out
\* of the registry and no broadcast calls send_text on it any more.
C19_UnregisteredIsTerminal ==
    /\ [](\A c \in Conns :
             (ws[c].pc = "closed" \/ ws[c].send_failed) =>
                 c \notin Registered(active_connections))
    /\ [][\A c \in Conns :
             Unregistered(c) =>
                 /\ c \notin Registered(active_connections')
                 /\ \A i \in 1..Len(tasks) : ~SendStep(i, c)
         ]_vars

\* C20: with connects and disconnects interleaved with suspended
\* broadcasts, no connection ever holds the same update event twice, and a
\* broadcast that ends has delivered its event exactly once to every
\* connection that was registered from its start to its end: none is skipped.
C20_NoDoubleNoMiss ==
    /\ [](\A c \in Conns : \A k \in 1..Len(ws[c].received) :
             Count(ws[c].received[k], ws[c].received) = 1)
    /\ [][\A i \in 1..Len(tasks) :
             BroadcastEnds(i) =>
                 \A c \in tasks[i].at_start \cap Registered(active_connections) :
                     Count(tasks[i].event, ws[c].received) = 1
         ]_vars

\* While a broadcast is suspended at its send to one connection, which got
\* the event, the other connection has registered and the first is still
\* registered.
C20_Witness ==
    /\ Len(tasks) = 1
    /\ \E c, d \in Conns :
           /\ tasks[1].at = Some(c)
           /\ tasks[1].at_start = {c}
           /\ Registered(active_connections) = {c, d}
           /\ c # d
           /\ Count(tasks[1].event, ws[c].received) = 1
           /\ ws[d].received # <<>>

\* The connections registered under the player ids of S, added up id by id.
RECURSIVE SumOverIds(_, _)
SumOverIds(S, reg) ==
    IF S = {} THEN 0
    ELSE LET u == CHOOSE x \in S : TRUE
         IN  Cardinality(ConnsOf(reg, u)) + SumOverIds(S \ {u}, reg)

\* C21: in every state get_connection_count is the number of registered
\* connections added up over all player ids; every connection counted is
\* live (its handler is listening, none has ended) and is counted once.
C21_CountIsTotal ==
    LET n == get_connection_count(active_connections)
    IN  /\ n = SumOverIds(Players, active_connections)
        /\ n = Cardinality(Registered(active_connections))
        /\ \A c \in Registered(active_connections) : ws[c].pc = "listening"
        /\ n = Cardinality({c \in Conns : ws[c].pc = "listening"})
               - Cardinality({c \in Conns : Unregistered(c) /\ ws[c].pc = "listening"})

\* Two connections are registered under one player id: the count is 2.
C21_Witness ==
    /\ Len(active_connections) = 1
    /\ active_connections[1].websockets = Conns
    /\ get_connection_count(active_connections) = 2

\* 1 + the number of active entries of tbl whose total is strictly greater
\* than the total of p's active entry; 1 when p has no active entry.
RankByCount(tbl, p) ==
    IF \A e \in tbl : e.user_id = p => e.is_active # 1 THEN 1
    ELSE 1 + Cardinality({f \in tbl :
                 /\ f.is_active = 1
                 /\ \E e \in tbl : /\ e.user_id = p /\ e.is_active = 1
                                    /\ f.total_score > e.total_score})

\* C22: _calculate_rank(p) is 1 + the number of active entries whose total
\* is strictly greater than p's current total, and 1 when p has no active
\* entry: on the committed table for every player, and in the rank step of
\* submit_score on the rows the session reads (its own flushed entry included).
C22_RankCalculator ==
    /\ [](\A p \in Players : calculate_rank(leaderboard, p) = RankByCount(leaderboard, p))
    /\ [][\A w \in Workers :
             (tx[w].pc = "rank" /\ tx'[w].pc = "invalidate") =>
                 /\ tx'[w].new_rank = RankByCount(ViewOf(w), tx[w].user_id)
                 /\ tx'[w].entry[1].rank = tx'[w].new_rank
         ]_vars

\* The rank step has given rank 2 to a player with total 200 behind an
\* active 500, while a deactivated entry holds 300 and itself ranks 1.
C22_Witness ==
    \E w \in Workers :
        /\ tx[w].pc = "invalidate"
        /\ tx[w].entry[1].total_score = 200
        /\ tx[w].new_rank = 2
        /\ \E e, f \in leaderboard :
               /\ e.is_active = 1 /\ e.total_score = 500
               /\ f.is_active = 0 /\ f.total_score = 300
               /\ calculate_rank(leaderboard, f.user_id) = 1

MiddleOfThree(p) ==
    LET act == ActiveRows(leaderboard)
    IN  /\ Cardinality(act) = 3
        /\ \A e, f \in act : e # f => e.total_score # f.total_score
        /\ \E e, m, f \in act :
               /\ m.user_id = p
               /\ e.total_score > m.total_score /\ m.total_score > f.total_score

\* The fraction q = <<numerator, denominator>> lies in [0, 100).
InPercentRange(q) == q[2] > 0 /\ 0 <= q[1] /\ q[1] < 100 * q[2]

\* C24: a get_user_rank answered from storage returns the percentile
\* (activeCount - rank) / activeCount * 100 of the rank it returns, the
\* stored one, with activeCount the number of active entries; in every state
\* the percentile of every ranked player, and of any result returned, lies
\* in [0, 100), and that of the middle one of three distinct totals is
\* strictly between 0 and 100.
C24_Percentile ==
    /\ [](\A p \in Players :
             LET r == StoredUserRank(p)
             IN  r # None =>
                     /\ InPercentRange(r[1].percentile)
                     /\ MiddleOfThree(p) => r[1].percentile[1] > 0)
    /\ []((ret.op = "rank" /\ ret.val # None) => InPercentRange(ret.val[1].percentile))
    /\ [][(nreads' # nreads /\ ret'.op = "rank" /\ ret'.src = "db" /\ ret'.val # None) =>
             LET n == Cardinality(ActiveRows(leaderboard))
                 v == ret'.val[1]
             IN  /\ \E e \in ActiveRows(leaderboard) :
                        e.user_id = ret'.args[1] /\ e.rank = v.rank
                 /\ v.percentile = <<(n - v.rank) * 100, n>>
         ]_vars

\* The middle one of three players with distinct totals has been looked up
\* from storage.
C24_Witness ==
    /\ ret.op = "rank" /\ ret.src = "db" /\ ret.val # None
    /\ MiddleOfThree(ret.args[1])
    /\ ret.val[1].percentile[2] = 3
    /\ ret.val[1].percentile[1] \in {100, 200}

\* C25: when batch_recalculate_rankings has completed, with no writer
\* beside it, for every batch size and whatever the stored ranks were,
\* every active entry has been recomputed and its stored rank is 1 + the
\* number of active entries with a strictly greater total.
C25_ReconcileAll ==
    job.pc = "done" =>
        \A e \in ActiveRows(leaderboard) :
            /\ e.user_id \in job.recalculated
            /\ e.rank = DenseRank(leaderboard, e)

\* C26: a request with a non-positive score, a non-positive player id or
\* an unknown game mode is answered with a validation failure and no step
\* of submit_score runs: no table, no cache key, no pending write and no
\* scheduled broadcast changes.
C26_InvalidRejected ==
    [][\A uid \in RawIds, sc \in RawScores, mode \in RawModes :
          (/\ uid <= 0 \/ sc <= 0 \/ mode \notin GameModes
           /\ PostSubmit("w1", uid, sc, mode)) =>
              /\ ret'.op = "submit" /\ ~ret'.ok /\ ret'.src = "validation"
              /\ tables' = tables
              /\ cache' = cache
              /\ tx' = tx
              /\ tasks' = tasks /\ ws' = ws
      ]_vars

\* A request has been rejected while a committed submission is in the
\* tables, its broadcast is scheduled and the cache holds a listing.
C26_Witness ==
    /\ ret.op = "submit" /\ ret.src = "validation"
    /\ Len(game_sessions) = 1
    /\ Len(tasks) = 1
    /\ \E k \in TopKeys : cache[k] # None /\ cache[k][1] # <<>>

\* C27: while the cache has no client or its calls raise, each of get,
\* set, delete, delete_pattern, exists and increment returns without raising,
\* returns its empty result (None, False, 0) and leaves the cache contents
\* as they are.
C27_BestEffort ==
    [][~CacheUp =>
          /\ cache' = cache
          /\ ret' # ret =>
                 /\ ret'.ok
                 /\ ret'.op = "get" => ret'.val = None
                 /\ ret'.op \in {"set", "delete", "exists"} => ret'.val = Some(FALSE)
                 /\ ret'.op \in {"delete_pattern", "increment"} => ret'.val = Some(0)
      ]_vars

\* With a page cached and the counter at 1, the connection is lost and an
\* increment has returned 0.
C27_Witness ==
    /\ redis_client /\ ~redis_ok
    /\ ret.op = "increment" /\ ret.val = Some(0)
    /\ \A k \in CounterKeys : cache[k] = Some(1)
    /\ \E k \in TopKeys : cache[k] # None /\ cache[k][1] # <<>>

\* C28: the event scheduled by the commit of a player's first submission
\* (the player had no entry) carries no previous rank, old_rank = None, and
\* rank_change = 0.
C28_FirstEventNullOldRank ==
    [][\A w \in Workers :
          (/\ Commits(w)
           /\ EntryOf(leaderboard, tx[w].user_id) = {}
           /\ Len(tasks') = Len(tasks) + 1) =>
              LET ev == tasks'[Len(tasks')].event
              IN  /\ ev.user_id = tx[w].user_id
                  /\ ev.old_rank = None
                  /\ ev.rank_change = 0
      ]_vars

\* The step in which session w issues the invalidation of the cached pages
\* and rank lookups.
Invalidates(w) == tx[w].pc = "invalidate" /\ tx'[w].pc # "invalidate"

\* C29: submit_score issues the cache invalidation only once its
\* transaction is committed: at the step that deletes the keys the new
\* entry, with its new total and rank, and the Game Session row are in the
\* committed tables, where other sessions read them.
C29_InvalidateAfterCommit ==
    [][\A w \in Workers :
          Invalidates(w) =>
              /\ tx[w].entry[1] \in leaderboard
              /\ \E i \in 1..Len(game_sessions) :
                     game_sessions[i] = GameSessionRow(tx[w].user_id, tx[w].score)
      ]_vars

\* C30: whatever reads other sessions made while a submission was running,
\* a read made once the submission has returned (no submission running, no
\* key expired) returns what the committed tables give: the page of a
\* listing of the active entries in total order, the stored rank, total and
\* percentile of the player; never a value cached from before the commit.
C30_ReadAfterSubmitIsFresh ==
    [][(AllIdle /\ nreads' # nreads) =>
          /\ ret'.op = "rank" => ret'.val = StoredUserRank(ret'.args[1])
          /\ ret'.op = "top" =>
                 \E order \in SortedOrders(JoinedActive) :
                     ret'.val = Slice(TopListing(order), ret'.args[2], ret'.args[1])
      ]_vars

\* The key a read call with the arguments args of ret looks up.
KeyOfRead(r) ==
    IF r.op = "top" THEN <<"top_leaderboard", r.args[1], r.args[2]>>
    ELSE <<"user_rank", r.args[1], 0>>

\* C31: a get_top_leaderboard or get_user_rank call made while the cache
\* holds a value under its key, an empty page included, returns that value
\* and issues no storage query.
C31_HitBypassesStorage ==
    [][(nreads' # nreads /\ ret'.op \in {"top", "rank"}) =>
          LET k == KeyOfRead(ret')
          IN  (CacheUp /\ cache[k] # None) =>
                  /\ ret'.src = "cache"
                  /\ ret'.val = IF ret'.op = "top" THEN cache[k][1] ELSE cache[k]
      ]_vars

\* The step in which session w computes and stores the new rank.
RankStep(w) == tx[w].pc = "rank" /\ tx'[w].pc = "invalidate"

\* The active entries of the other players with a total strictly greater
\* than t, in the committed table.
OthersAhead(p, t) ==
    {f \in leaderboard : f.user_id # p /\ f.is_active = 1 /\ f.total_score > t}

\* C32 (as claimed): the rank submit_score computes, persists and returns
\* is 1 + the number of active entries whose total is strictly greater than
\* the submitter's total after the update, for every submitter.
C32_RankFromNewTotal ==
    [][\A w \in Workers :
          /\ RankStep(w) =>
                 LET e == tx[w].entry[1]
                 IN  /\ tx[w].flushed /\ e.total_score >= tx[w].score
                     /\ tx'[w].new_rank =
                            1 + Cardinality(OthersAhead(e.user_id, e.total_score))
          /\ CommitStep(w) =>
                 /\ ret'.val[1].rank = tx[w].new_rank
                 /\ \E e \in EntryOf(leaderboard', tx[w].user_id) :
                        e.rank = tx[w].new_rank
      ]_vars

\* C32 (amended): for a submitter whose entry is active the rank computed,
\* persisted and returned is 1 + the number of other active entries whose
\* total is strictly greater than the submitter's total after the update
\* (the session's own flushed update is what the computation reads); for a
\* submitter whose entry is deactivated it is 1.
C32_RankFromNewTotalIfActive ==
    [][\A w \in Workers :
          /\ RankStep(w) =>
                 LET e == tx[w].entry[1]
                 IN  /\ tx[w].flushed /\ e.total_score >= tx[w].score
                     /\ tx'[w].new_rank =
                            IF e.is_active = 1
                            THEN 1 + Cardinality(OthersAhead(e.user_id, e.total_score))
                            ELSE 1
          /\ CommitStep(w) =>
                 /\ ret'.val[1].rank = tx[w].new_rank
                 /\ \E e \in EntryOf(leaderboard', tx[w].user_id) :
                        e.rank = tx[w].new_rank
      ]_vars

\* The deactivated player's submission has been ranked 1 although another
\* player's active entry holds a strictly greater total.
C32_Witness ==
    \E w \in Workers :
        /\ tx[w].pc = "invalidate"
        /\ tx[w].entry[1].is_active = 0
        /\ tx[w].new_rank = 1
        /\ Cardinality(OthersAhead(tx[w].user_id, tx[w].entry[1].total_score)) >= 1

\* C33: the rank shown for a player in a get_top_leaderboard listing equals
\* the rank get_user_rank returns for that player when the lookup follows
\* the listing with no submission in between, ties included.
C33_OneRankConvention ==
    [][(nreads' # nreads /\ ret.op = "top" /\ ret'.op = "rank" /\ ret'.val # None) =>
          \A i \in 1..Len(ret.val) :
              ret.val[i].user_id = ret'.args[1] =>
                  ret.val[i].rank = ret'.val[1].rank
      ]_vars

\* The stored rank of player p in table tbl (0 without an entry).
RankIn(tbl, p) ==
    IF EntryOf(tbl, p) = {} THEN 0 ELSE (CHOOSE e \in EntryOf(tbl, p) : TRUE).rank

\* C34: batch_recalculate_rankings commits once per batch.  While a batch
\* is being updated the committed table shows none of its updates, and a
\* job interrupted during a batch leaves the ranks recalculated by the
\* batches committed before and, for every other entry, the rank it had
\* when the job was called.
C34_CommitPerBatch ==
    /\ [](job.pc \in {"update", "crashed"} =>
            \A e \in leaderboard :
                e.rank = IF e.user_id \in job.recalculated
                         THEN calculate_rank(leaderboard, e.user_id)
                         ELSE RankIn(job.start, e.user_id))
    /\ [][(job.pc = "update" /\ job'.pc = "query") =>
              /\ job.page = <<>>
              /\ \A d \in job.pending : d \in leaderboard'
          ]_vars
    /\ [][job'.pc = "crashed" => leaderboard' = leaderboard]_vars

\* A job was interrupted in its second batch: the first batch's correction
\* is in the table, the correction the second batch had made is not.
C34_Witness ==
    /\ job.pc = "crashed"
    /\ \E e \in leaderboard :
           /\ e.user_id \in job.recalculated
           /\ e.rank # RankIn(job.start, e.user_id)
    /\ \E d \in job.lost :
           /\ d.user_id \notin job.recalculated
           /\ d.rank # RankIn(leaderboard, d.user_id)

\* The rows of table tbl that belong to other players than p.
RowsOfOthers(tbl, p) == {e \in tbl : e.user_id # p}

C36_RankWithinActiveCount ==
    \A e \in ActiveRows(leaderboard) :
        /\ 1 <= e.rank
        /\ e.rank <= Cardinality(ActiveRows(leaderboard))

\* A finished reconciliation run has given the last of NumPlayers active
\* entries the rank NumPlayers, beside a deactivated entry or none.
C36_Witness ==
    /\ job.pc = "done"
    /\ job.recalculated # {}
    /\ \E e \in ActiveRows(leaderboard) :
           /\ e.rank = Cardinality(ActiveRows(leaderboard))
           /\ e.rank >= 2

\* The committed total of player p, 0 without an entry.
TotalOf(tbl, p) ==
    IF EntryOf(tbl, p) = {} THEN 0
    ELSE (CHOOSE e \in EntryOf(tbl, p) : TRUE).total_score

\* 1 + the number of other active entries of tbl with a total strictly
\* greater than t.
TrueRank(tbl, p, t) ==
    1 + Cardinality({f \in ActiveRows(tbl) : f.user_id # p /\ f.total_score > t})

\* C37: a submit_score call that returns has strictly increased the
\* submitter's stored total, and the new_rank it returns is not greater than
\* the submitter's true rank, 1 + the number of strictly greater active
\* totals, in the table just before its commit.
C37_SubmitNeverDemotes ==
    [][\A w \in Workers :
          CommitStep(w) =>
              LET p == tx[w].user_id
              IN  /\ TotalOf(leaderboard', p) > TotalOf(leaderboard, p)
                  /\ ret'.val[1].rank <= TrueRank(leaderboard, p, TotalOf(leaderboard, p))
      ]_vars

\* The entries of tbl without their stored rank.
WithoutRank(tbl) ==
    {[user_id |-> e.user_id, total_score |-> e.total_score,
      games_played |-> e.games_played, is_active |-> e.is_active] : e \in tbl}

\* C38: a step of batch_recalculate_rankings changes stored ranks only: the
\* Player and Game Session rows stay as they are, no entry is created or
\* deleted, every entry keeps its total, games played and active flag, and
\* the deactivated entries keep their rank too.
C38_BatchFrame ==
    [][job' # job =>
          /\ users' = users
          /\ game_sessions' = game_sessions
          /\ Cardinality(leaderboard') = Cardinality(leaderboard)
          /\ WithoutRank(leaderboard') = WithoutRank(leaderboard)
          /\ \A e \in leaderboard : e.is_active = 0 => e \in leaderboard'
      ]_vars

\* A finished run has recalculated an active entry to a rank behind the
\* first, and the deactivated entry still holds rank 1 although an active
\* total is greater than its own.
C38_Witness ==
    /\ job.pc = "done"
    /\ \E e \in ActiveRows(leaderboard) :
           e.user_id \in job.recalculated /\ e.rank >= 2
    /\ \E d \in leaderboard :
           /\ d.is_active = 0
           /\ d.rank = 1
           /\ \E f \in ActiveRows(leaderboard) : f.total_score > d.total_score

\* ceil(n / d) for d >= 1.
CeilDiv(n, d) == (n + d - 1) \div d

\* C39: with no entry inserted while it runs, a run of
\* batch_recalculate_rankings ends, and it issues at most
\* ceil(activeCount / batch_size) + 1 page queries.
C39_BatchTerminates ==
    /\ [](job.pc \in {"running", "done"} =>
             job.queries <= CeilDiv(Cardinality(ActiveRows(leaderboard)),
                                    job.batch_size) + 1)
    /\ (job.pc = "running" ~> job.pc = "done")

\* A run over three active entries in pages of two has ended with its third
\* query, the empty one.
C39_Witness ==
    /\ job.pc = "done"
    /\ job.batch_size = 2
    /\ Cardinality(ActiveRows(leaderboard)) = 3
    /\ job.queries = 3

\* C40: a get_top_leaderboard(limit, offset) answered from storage is the
\* part [offset, offset + limit) of the listing of all active entries by
\* descending total: it has min(limit, n - offset) entries (none when the
\* offset is at or beyond the number n of active entries), its i-th entry
\* (counted from 0) has display rank offset + i + 1, and that rank is a
\* position the entry's total can take among all active totals.
C40_PageIsSliceOfRanking ==
    (ret.op = "top" /\ ret.src = "db") =>
        LET v == ret.val
            limit == ret.args[1]
            offset == ret.args[2]
            act == ActiveRows(leaderboard)
            n == Cardinality(act)
        IN  /\ offset >= n => v = <<>>
            /\ offset < n => Len(v) = Min(limit, n - offset)
            /\ \A i \in 1..Len(v) :
                   /\ v[i].rank = offset + (i - 1) + 1
                   /\ \E e \in act : /\ e.user_id = v[i].user_id
                                     /\ e.total_score = v[i].total_score
                                     /\ e.games_played = v[i].games_played
                   /\ Cardinality({f \in act : f.total_score > v[i].total_score})
                          < v[i].rank
                   /\ v[i].rank
                          <= Cardinality({f \in act : f.total_score >= v[i].total_score})
            /\ \A i, j \in 1..Len(v) : i # j => v[i].user_id # v[j].user_id

\* The second page of two has been read from storage with three active
\* entries: it holds the entries of display ranks 2 and 3.
C40_Witness ==
    /\ ret.op = "top" /\ ret.src = "db"
    /\ ret.args = <<PageLimit, 1>>
    /\ Cardinality(ActiveRows(leaderboard)) = 3
    /\ Len(ret.val) = 2
    /\ ret.val[1].rank = 2 /\ ret.val[2].rank = 3

====
